---- MODULE Spec2Model ----
(***************************************************************************)
(* Model of the fizz-backend turn orchestrator (registerRoutes): the       *)
(* streaming turn POST /api/messages, the poll turn POST                   *)
(* /api/messages/poll, image generation POST /api/generate-image, the      *)
(* message operations (edit, pin, reaction), the persistence layer they    *)
(* use (DatabaseStorage) and the anonymous Rate Counter kept in the        *)
(* caller's session.                                                       *)
(*                                                                         *)
(* Spec     : requests are handled one after another; a handler advances   *)
(*            state by state of its state machine, and every collaborator  *)
(*            call (persistence, upstream stream, image provider) may      *)
(*            return or throw. When a handler has returned, its request,   *)
(*            response and locals are released (Return).                   *)
(* SpecRate : two overlapping requests of one anonymous session, each      *)
(*            working on the copy of the session it loaded, to study the   *)
(*            Rate Counter up to MESSAGE_LIMIT.                            *)
(*                                                                         *)
(* Strings are sequences of one-character strings, so that concatenation   *)
(* (+=), trimming and prefixes are computed and not assumed.               *)
(***************************************************************************)
EXTENDS Integers, Sequences, FiniteSets, TLC

\* ------------------------------------------------------------------ bounds
MaxRequests == 2
MaxMessages == 2
MaxChunks == 2
MaxSecondaryChunks == 1
MaxDebateChunks == 3
MaxRows == 3
MaxAdmitted == 17

\* ------------------------------------------------------- program constants
MESSAGE_LIMIT == 15
HistoryWindow == 20
MinDataUriLength == 100
SuggestionLimit == 3

Null == "null"
Anonymous == "anonymous"
Users == {"u1", "u2"}
Callers == Users \cup {Anonymous}

\* users.plan (shared/schema.ts): u1 is a subscriber, u2 is on the default plan
planOf == [u \in Users |-> IF u = "u1" THEN "plus" ELSE "free"]

\* the conversations table: c0 was created by an anonymous caller, c1 belongs
\* to u1 and uses u1's custom persona p1; "cx" is an id with no row
conversations ==
  [c \in {"c0", "c1"} |->
     IF c = "c0" THEN [id |-> "c0", userId |-> Null, persona |-> <<"general">>]
                 ELSE [id |-> "c1", userId |-> "u1", persona |-> <<"custom-", "p1">>]]
ConversationIds == {"c0", "c1", "cx"}
NoConversation == [id |-> Null, userId |-> Null, persona |-> <<>>]

\* the custom_personas table
customPersonas == {[id |-> <<"p1">>, userId |-> "u1", systemPrompt |-> "prompt-p1"]}

\* ------------------------------------------------------------------ strings
Empty == <<>>
Placeholder == <<"I'm sorry, I couldn't generate a response.">>

RECURSIVE TrimStart(_)
TrimStart(s) == IF s # <<>> /\ Head(s) = " " THEN TrimStart(Tail(s)) ELSE s

RECURSIVE TrimEnd(_)
TrimEnd(s) ==
  IF s # <<>> /\ s[Len(s)] = " " THEN TrimEnd(SubSeq(s, 1, Len(s) - 1)) ELSE s

\* String.prototype.trim
Trim(s) == TrimEnd(TrimStart(s))

\* String.prototype.startsWith
StartsWith(s, p) == Len(s) >= Len(p) /\ SubSeq(s, 1, Len(p)) = p

\* Array.prototype.slice(-n)
SliceLast(s, n) == IF Len(s) <= n THEN s ELSE SubSeq(s, Len(s) - n + 1, Len(s))

\* JavaScript truthiness of a string
Truthy(s) == s # Empty

\* image references a client may send: [prefix, length] stands for a string
\* with that prefix and that total length
ImageUrls ==
  { [prefix |-> "data:image/", length |-> 50],
    [prefix |-> "https://", length |-> 30],
    [prefix |-> "ftp://", length |-> 30] }
NoImage == [prefix |-> "", length |-> 0]
\* the reference returned by the n-th successful call of the image provider:
\* every call returns a reference of its own
GeneratedImage(n) == [prefix |-> "https://", length |-> 60 + n]

\* request bodies: content is a string or is missing (not a string)
Missing == <<"<missing>">>
Contents == {<<" ">>, <<"h", "i">>, Missing}

\* bodies of turn requests: blank text, text with an image reference of each
\* kind, no text
TurnBodies ==
  {[content |-> <<" ">>, imageUrl |-> NoImage],
   [content |-> Missing, imageUrl |-> NoImage]}
    \cup [content : {<<"h", "i">>}, imageUrl : ImageUrls]

\* ------------------------------------------------------------------- state
VARIABLES
  messages,            \* the messages table, in createdAt order
  nextId,              \* randomUUID(): ids handed out so far
  unauthMessageCount,  \* req.session.unauthMessageCount of the anonymous session
  pc,                  \* position of the handler in flight
  req,                 \* the request in flight
  res,                 \* its response: status, SSE headers, frames written, ended
  validatedData,       \* clientMessageSchema.parse(req.body)
  userMessage,         \* id of the user message persisted by the turn, or 0
  conversationMessages,\* storage.getMessages() result used as history
  openaiMessages,      \* instruction set sent upstream
  aiResponse,          \* pending assistant text
  generatedImageUrl,   \* pending assistant image reference
  toolCalls,           \* the Tool-Call Accumulator (a JavaScript array)
  toolResults,         \* tool results gathered by EXECUTE_TOOLS
  toolIdx,             \* position of the for...of loop over toolCalls
  aiMessage,           \* id of the assistant message persisted by the turn, or 0
  error,               \* the error caught by the handler's catch block
  upstream,            \* log of the calls made to the upstream model and tools,
                       \* of the chunks received and of the image provider's answers
  nreq,                \* requests started so far
  rate,                \* SpecRate: the turn requests of one session in flight
  round,               \* SpecDebate: the round of the debate loop
  speaker,             \* SpecDebate: the persona whose turn it is, 1 or 2
  personaText,         \* SpecDebate: persona1Text / persona2Text
  conversationHistory  \* SpecDebate: the transcript of the debate so far

vars == <<messages, nextId, unauthMessageCount, pc, req, res, validatedData,
          userMessage, conversationMessages, openaiMessages, aiResponse,
          generatedImageUrl, toolCalls, toolResults, toolIdx, aiMessage, error,
          upstream, nreq, rate, round, speaker, personaText,
          conversationHistory>>

debateLocals == <<round, speaker, personaText, conversationHistory>>

locals == <<validatedData, userMessage, conversationMessages, openaiMessages,
            aiResponse, generatedImageUrl, toolCalls, toolResults, toolIdx,
            aiMessage, error>>

streamLocals == <<aiResponse, generatedImageUrl, toolCalls, toolResults, toolIdx>>

NoRequest == [kind |-> "none", caller |-> Anonymous, conversationId |-> "cx",
              content |-> Empty, imageUrl |-> NoImage, id |-> 0,
              isPinned |-> FALSE, emoji |-> Null]
\* closedAt: the number of frames written when the client closed the
\* connection, or -1 while the connection is open
NoResponse == [status |-> 0, sse |-> FALSE, frames |-> <<>>, json |-> Null,
               ended |-> FALSE, closedAt |-> -1]
NoUpstream == [calls |-> <<>>, received |-> <<>>, images |-> 0, outcomes |-> <<>>]
NoError == [status |-> 0, message |-> Empty]
NoData == [conversationId |-> "cx", content |-> Empty, imageUrl |-> NoImage]

Slots == {1, 2}
IdleSlot == [pc |-> "done", session |-> 0, read |-> 0, status |-> 0,
             after |-> 0, wrote |-> FALSE, called |-> FALSE]
NoRate == [admitted |-> 0, succeeded |-> 0, overlapped |-> FALSE,
           slot |-> [i \in Slots |-> IdleSlot]]

\* the handler state of a server that waits for a request
InitHandler ==
  /\ pc = "idle"
  /\ req = NoRequest
  /\ res = NoResponse
  /\ validatedData = NoData
  /\ userMessage = 0
  /\ conversationMessages = <<>>
  /\ openaiMessages = <<>>
  /\ aiResponse = Empty
  /\ generatedImageUrl = NoImage
  /\ toolCalls = <<>>
  /\ toolResults = <<>>
  /\ toolIdx = 0
  /\ aiMessage = 0
  /\ error = NoError
  /\ upstream = NoUpstream
  /\ nreq = 0
  /\ rate = NoRate
  /\ round = 0
  /\ speaker = 1
  /\ personaText = Empty
  /\ conversationHistory = <<>>

InitCommon ==
  /\ messages = <<>>
  /\ nextId = 0
  /\ InitHandler

\* Spec starts with a session one request short of the limit (SpecRate
\* reaches every value of the counter from 0)
Init == InitCommon /\ unauthMessageCount = MESSAGE_LIMIT - 1

\* SpecRate starts with a new session
InitRate == InitCommon /\ unauthMessageCount = 0

\* --------------------------------------------------------------- upstream
\* errors a collaborator may throw: [status, message]; a message is a
\* sequence of words
UpstreamErrors ==
  { [status |-> 400, message |-> <<"Bad", "Request">>],
    [status |-> 500, message |-> <<"Invalid image", "payload">>],
    [status |-> 500, message |-> <<"connection", "reset">>],
    [status |-> 0, message |-> Empty] }

\* errors of the persistence service and of a stream cut while it is read
StorageErrors == {[status |-> 0, message |-> <<"db", "timeout">>]}
StreamErrors == {[status |-> 0, message |-> <<"connection", "reset">>]}

\* String.prototype.includes, on words
Includes(s, w) == \E i \in 1..Len(s) : s[i] = w

\* tool-call fragments the upstream stream may deliver
Fragments ==
  { [index |-> 0, id |-> "call_0", name |-> "generate_image", arguments |-> <<"{">>],
    [index |-> 0, id |-> "", name |-> "", arguments |-> <<"}">>],
    [index |-> 1, id |-> "call_1", name |-> "lookup_weather", arguments |-> <<"{", "}">>] }

\* one chunk may carry fragments of several indices, in any order: here
\* a second image call, of index 1, ahead of the first fragment of index 0
Interleaved ==
  << [index |-> 1, id |-> "call_2", name |-> "generate_image", arguments |-> <<"{", "}">>],
     [index |-> 0, id |-> "call_0", name |-> "generate_image", arguments |-> <<"{">>] >>

\* the chunks received so far from the stream of one kind, and the non-empty
\* text deltas received so far, in delivery order
Received(kind) == SelectSeq(upstream.received, LAMBDA c : c.stream = kind)

TextDeltas ==
  LET text == SelectSeq(upstream.received, LAMBDA c : c.delta.content # Empty)
  IN [i \in 1..Len(text) |-> text[i].delta.content]

\* delta.content of the next chunk: empty, or the next piece of the reply;
\* the pieces of one reply are pairwise distinct, so that their order shows
Pieces == <<"a", "b", "c", "d", "e", "f", "g", "h">>
Deltas == {Empty, <<Pieces[Len(TextDeltas) + 1]>>}

\* chunk.choices[0].delta: the next piece of text, or a tool-call fragment
\* with empty text
Chunks ==
  [content : Deltas \ {Empty}, tool_calls : {<<>>}]
    \cup [content : {Empty}, tool_calls : {<<f>> : f \in Fragments}]
    \cup [content : {Empty}, tool_calls : {Interleaved}]

\* JSON.parse of an argument buffer succeeds
IsJSON(buf) == buf = <<"{", "}">>

\* an element of the parsed reply that is not a string (a number, an object)
NotAString == <<"<not a string>">>

\* the reply of the suggestion request: choices[0].message.content
SuggestionReplies ==
  { [json |-> FALSE, array |-> FALSE, items |-> <<>>],
    [json |-> TRUE, array |-> FALSE, items |-> <<>>],
    [json |-> TRUE, array |-> TRUE, items |-> <<>>],
    [json |-> TRUE, array |-> TRUE, items |-> << <<" ">>, Empty >>],
    [json |-> TRUE, array |-> TRUE, items |-> << <<"q", "1">>, NotAString >>],
    [json |-> TRUE, array |-> TRUE,
     items |-> << <<"q", "1">>, <<" ">>, <<"q", "2">>, <<"q", "3">> >>],
    [json |-> TRUE, array |-> TRUE,
     items |-> << <<"q", "1">>, <<"q", "2">>, <<"q", "3">>, NotAString >>] }

\* ------------------------------------------------------------ persistence
\* DatabaseStorage.createMessage: insert with a fresh id
NewMessage(m) ==
  [id |-> nextId + 1, conversationId |-> m.conversationId, role |-> m.role,
   content |-> m.content, imageUrl |-> m.imageUrl, isPinned |-> "false",
   reactions |-> <<>>, edited |-> FALSE, turn |-> nreq]

createMessage(m) == Append(messages, NewMessage(m))

\* DatabaseStorage.getMessages: rows of one conversation, oldest first
getMessages(table, conversationId) ==
  SelectSeq(table, LAMBDA m : m.conversationId = conversationId)

\* DatabaseStorage.getMessage
getMessage(id) == {m \in {messages[i] : i \in 1..Len(messages)} : m.id = id}

\* DatabaseStorage.getConversation
getConversation(id) ==
  IF id \in DOMAIN conversations THEN conversations[id] ELSE NoConversation

\* DatabaseStorage.getCustomPersona: by id and owner
getCustomPersona(id, userId) ==
  {p \in customPersonas : p.id = id /\ p.userId = userId}

\* ---------------------------------------------------------------- response
\* res.status(code).json(body): an ordinary structured response
Json(code, body) ==
  [res EXCEPT !.status = code, !.json = body, !.ended = TRUE]

\* a write that puts the frame ahead of the frames already written
Write_Prepend(r, type, data) ==
  [r EXCEPT !.frames = <<[type |-> type, data |-> data]>> \o @]

\* res.write(`data: ...\n\n`): one frame
Write(r, type, data) ==
  [r EXCEPT !.frames = Append(@, [type |-> type, data |-> data])]

\* res.end()
End(r) == [r EXCEPT !.ended = TRUE]

Frames(type) == SelectSeq(res.frames, LAMBDA f : f.type = type)

\* ------------------------------------------------------------ new request
\* a server that takes every caller for an anonymous one
isAuthenticated_Never == FALSE

\* req.isAuthenticated() && req.user?.claims?.sub
isAuthenticated == req.caller # Anonymous

TurnRequests ==
  {r \in [kind : {"stream", "poll"}, caller : Callers,
          conversationId : ConversationIds, content : Contents,
          imageUrl : ImageUrls \cup {NoImage}, id : {0}, isPinned : {FALSE},
          emoji : {Null}] :
     /\ [content |-> r.content, imageUrl |-> r.imageUrl] \in TurnBodies
     /\ r.content = <<" ">> => r.caller = Anonymous}

\* a handler is entered with a new request
Receive(r) ==
  /\ pc \in {"idle", "curating"}
  /\ nreq < MaxRequests
  /\ nreq' = nreq + 1
  /\ req' = r
  /\ UNCHANGED <<messages, nextId, unauthMessageCount, res, locals, upstream,
                 rate, debateLocals>>

\* the handler has returned and its response has ended: the request, the
\* response and the locals of the handler are gone; what stays is the
\* messages table and the session. A run is a conversation that is written
\* and then curated: once a message operation was handled, no turn follows.
Return ==
  /\ pc = "done"
  /\ pc' = IF req.kind \in {"stream", "poll", "image", "debate"} THEN "idle"
           ELSE "curating"
  /\ req' = NoRequest
  /\ res' = NoResponse
  /\ validatedData' = NoData
  /\ userMessage' = 0
  /\ conversationMessages' = <<>>
  /\ openaiMessages' = <<>>
  /\ aiResponse' = Empty
  /\ generatedImageUrl' = NoImage
  /\ toolCalls' = <<>>
  /\ toolResults' = <<>>
  /\ toolIdx' = 0
  /\ aiMessage' = 0
  /\ error' = NoError
  /\ upstream' = NoUpstream
  /\ round' = 0
  /\ speaker' = 1
  /\ personaText' = Empty
  /\ conversationHistory' = <<>>
  /\ UNCHANGED <<messages, nextId, unauthMessageCount, nreq, rate>>

\* a client sends POST /api/messages or POST /api/messages/poll; a turn is
\* taken while the table has room for its two messages
ReceiveTurn ==
  /\ pc = "idle"
  /\ Len(messages) + 2 <= MaxMessages
  /\ \E r \in TurnRequests :
       /\ Receive(r)
       /\ pc' = "validating"

\* ------------------------------------------------- VALIDATING, AUTHORIZING
\* the image checks of the validation block
ImageCheck(url) ==
  IF url = NoImage THEN "ok"
  ELSE LET isDataUri == url.prefix = "data:image/"
           isHttpUrl == url.prefix = "http://" \/ url.prefix = "https://"
       IN IF ~isDataUri /\ ~isHttpUrl THEN "Invalid image format"
          ELSE IF isDataUri /\ url.length < MinDataUriLength THEN "Invalid image data"
          ELSE "ok"

\* clientMessageSchema.parse: content must be a string
SchemaOk(body) == body.content # Missing

\* validation of a turn request, the same block in both turn endpoints
Validate ==
  /\ pc = "validating"
  /\ req.kind \in {"stream", "poll"}
  /\ IF ~SchemaOk(req)
       THEN /\ res' = Json(400, "Invalid request data")
            /\ pc' = "done"
            /\ UNCHANGED validatedData
       ELSE IF ImageCheck(req.imageUrl) # "ok"
       THEN /\ res' = Json(400, ImageCheck(req.imageUrl))
            /\ pc' = "done"
            /\ UNCHANGED validatedData
       ELSE /\ validatedData' = [conversationId |-> req.conversationId,
                                 content |-> req.content, imageUrl |-> req.imageUrl]
            /\ pc' = "authorizing"
            /\ UNCHANGED res
  /\ UNCHANGED <<messages, nextId, unauthMessageCount, req, userMessage,
                 conversationMessages, openaiMessages, streamLocals, aiMessage,
                 error, upstream, nreq, rate, debateLocals>>

\* the limit check with an off-by-one comparison
LimitReached_OffByOne(currentCount) == currentCount > MESSAGE_LIMIT

\* the limit check on the session counter
LimitReached(currentCount) == currentCount >= MESSAGE_LIMIT

\* message limit of unauthenticated callers, the same block in both endpoints
RateLimit ==
  /\ pc = "authorizing"
  /\ IF ~isAuthenticated
       THEN LET currentCount == unauthMessageCount
            IN IF LimitReached(currentCount)
                 THEN /\ res' = Json(429, "Message limit reached")
                      /\ pc' = "done"
                      /\ UNCHANGED unauthMessageCount
                 ELSE /\ unauthMessageCount' = currentCount + 1
                      /\ pc' = "lookup"
                      /\ UNCHANGED res
       ELSE /\ pc' = "lookup"
            /\ UNCHANGED <<res, unauthMessageCount>>
  /\ UNCHANGED <<messages, nextId, req, locals, upstream, nreq, rate, debateLocals>>

\* the ownership rule of the turn endpoints: only authenticated callers are
\* compared with the owner
AccessDenied(conversation) ==
  /\ isAuthenticated
  /\ conversation.userId # Null
  /\ conversation.userId # req.caller

\* conversation lookup and ownership; the streaming endpoint then sets the
\* SSE headers
Lookup ==
  /\ pc = "lookup"
  /\ LET conversation == getConversation(validatedData.conversationId)
     IN IF conversation = NoConversation
          THEN /\ res' = Json(404, "Conversation not found")
               /\ pc' = "done"
          ELSE IF AccessDenied(conversation)
          THEN /\ res' = Json(403, "Access denied")
               /\ pc' = "done"
          ELSE /\ res' = [res EXCEPT !.sse = (req.kind = "stream")]
               /\ pc' = "persist_user"
  /\ UNCHANGED <<messages, nextId, unauthMessageCount, req, locals, upstream,
                 nreq, rate, debateLocals>>

\* -------------------------------------------------------------------- ERROR
ImageErrorMessage == <<"The image you provided could not be processed.">>
DefaultErrorMessage == <<"Failed to process message">>

\* the message chosen by the catch block of both turn endpoints
IsImageError(e) ==
  \/ e.status = 400
  \/ Includes(e.message, "Invalid image")
  \/ Includes(e.message, "image data")

ErrorMessage(e) ==
  IF IsImageError(e) THEN ImageErrorMessage
  ELSE IF Truthy(e.message) THEN e.message ELSE DefaultErrorMessage

\* the catch block of the turn endpoints, entered from the throwing await:
\* the streaming endpoint writes the error frame and ends, the poll endpoint
\* answers 400 or 500
Catch(e) ==
  IF req.kind = "stream" THEN End(Write(res, "error", ErrorMessage(e)))
  ELSE IF IsImageError(e) THEN Json(400, "Invalid image data")
  ELSE Json(500, "Failed to process message")

Throw(e) ==
  /\ error' = e
  /\ res' = Catch(e)
  /\ pc' = "done"

\* ------------------------------------------------- PERSIST_USER (streaming)
UserRow ==
  [conversationId |-> validatedData.conversationId, role |-> "user",
   content |-> validatedData.content, imageUrl |-> validatedData.imageUrl]

\* the history read issued together with the insert (Promise.all) runs
\* before or after it
HistoryRead(before, after, readFirst) == IF readFirst THEN before ELSE after

\* a user row that is only saved with the reply: nothing is inserted here
InsertUser_Deferred(table, row) == table

\* the insert of the user row by the streaming endpoint
InsertUser(table, row) == Append(table, NewMessage(row))

\* the streaming endpoint issues createMessage and getMessages together:
\* either call may throw, and an insert that succeeded stays when the read
\* throws
StreamPersistUser ==
  /\ pc = "persist_user"
  /\ req.kind = "stream"
  /\ \/ \E readFirst \in BOOLEAN :
          /\ messages' = InsertUser(messages, UserRow)
          /\ nextId' = nextId + 1
          /\ userMessage' = nextId + 1
          /\ conversationMessages' =
               getMessages(HistoryRead(messages, messages', readFirst),
                           validatedData.conversationId)
          /\ pc' = "build_context"
          /\ UNCHANGED <<error, res>>
     \/ \E e \in StorageErrors, inserted \in BOOLEAN :
          /\ IF inserted
               THEN messages' = createMessage(UserRow) /\ nextId' = nextId + 1
               ELSE UNCHANGED <<messages, nextId>>
          /\ Throw(e)
          /\ UNCHANGED <<userMessage, conversationMessages>>
  /\ UNCHANGED <<unauthMessageCount, req, validatedData, openaiMessages,
                 streamLocals, aiMessage, upstream, nreq, rate, debateLocals>>

\* ------------------------------------------------------------ BUILD_CONTEXT
\* one history element: a user turn with an image is multi-part
FormatStream(msg) ==
  IF msg.imageUrl # NoImage /\ msg.role = "user"
    THEN [role |-> "user", content |-> msg.content, image_url |-> msg.imageUrl]
    ELSE [role |-> IF msg.role = "user" THEN "user" ELSE "assistant",
          content |-> msg.content, image_url |-> NoImage]

\* conversationMessages.slice(-20).map(...)
History(rows) ==
  LET window == SliceLast(rows, HistoryWindow)
  IN [i \in 1..Len(window) |-> FormatStream(window[i])]

isCustomPersona(conversation) == StartsWith(conversation.persona, <<"custom-">>)

\* getPersonaById: an unknown id yields the first persona, "general"
BuiltinPersonas == {<<"general">>, <<"code-expert">>, <<"teacher">>}
getPersonaSystemPrompt(id) == IF id \in BuiltinPersonas THEN id ELSE <<"general">>

\* users.memory is non-empty for u1 only
HasMemory(userId) == userId = "u1"

\* the system directive: persona prompt, memory block, image guidance
SystemPrompt(directive) ==
  [role |-> "system", content |-> directive,
   memory |-> (isAuthenticated /\ HasMemory(req.caller)),
   guidance |-> (validatedData.imageUrl # NoImage)]

\* the persona directive of a conversation for a caller
Directive(conversation, userId) ==
  LET custom == IF isCustomPersona(conversation) /\ userId # Null
                  THEN getCustomPersona(Tail(conversation.persona), userId)
                  ELSE {}
  IN IF isCustomPersona(conversation)
       THEN IF custom = {} THEN getPersonaSystemPrompt(<<"general">>)
            ELSE <<(CHOOSE p \in custom : TRUE).systemPrompt>>
       ELSE getPersonaSystemPrompt(conversation.persona)

\* a custom persona needs an authenticated caller
PersonaNeedsUser(conversation, userId) ==
  isCustomPersona(conversation) /\ userId = Null

\* persona selection, instruction set and the userMessage frame
StreamBuildContext ==
  /\ pc = "build_context"
  /\ req.kind = "stream"
  /\ LET conversation == getConversation(validatedData.conversationId)
         userId == IF isAuthenticated THEN req.caller ELSE Null
     IN \/ /\ PersonaNeedsUser(conversation, userId)
           /\ res' = Json(401, "Authentication required for custom personas")
           /\ pc' = "done"
           /\ UNCHANGED <<openaiMessages, error>>
        \/ /\ ~PersonaNeedsUser(conversation, userId)
           /\ openaiMessages' =
                <<SystemPrompt(Directive(conversation, userId))>>
                  \o History(conversationMessages)
           /\ res' = Write(res, "userMessage", userMessage)
           /\ pc' = "open_primary"
           /\ UNCHANGED error
        \/ /\ userId # Null    \* getCustomPersona or getUser throws
           /\ \E e \in StorageErrors : Throw(e)
           /\ UNCHANGED openaiMessages
  /\ UNCHANGED <<messages, nextId, unauthMessageCount, req, validatedData,
                 userMessage, conversationMessages, streamLocals, aiMessage,
                 upstream, nreq, rate, debateLocals>>

\* ----------------------------------------------------------- STREAM_PRIMARY
\* the tool registry sent with the primary request
Registry == {"generate_image"}

\* a tools parameter sent with every request
Advertised_All(kind) == Registry

\* the tools parameter of a request to the upstream model: only the primary
\* request of the streaming endpoint has one
Advertised(kind) == IF kind = "primary" THEN Registry ELSE {}

Call(kind, msgs) ==
  [upstream EXCEPT !.calls = Append(@, [kind |-> kind, messages |-> msgs,
                                        tools |-> Advertised(kind)])]

\* openai.chat.completions.create with the tool registry
StreamOpenPrimary ==
  /\ pc = "open_primary"
  /\ upstream' = Call("primary", openaiMessages)
  /\ \/ pc' = "stream_primary" /\ UNCHANGED <<error, res>>
     \/ \E e \in UpstreamErrors : Throw(e)
  /\ UNCHANGED <<messages, nextId, unauthMessageCount, req, validatedData,
                 userMessage, conversationMessages, openaiMessages, streamLocals,
                 aiMessage, nreq, rate, debateLocals>>

Undefined == [id |-> "<undefined>", name |-> "<undefined>", arguments |-> <<>>]

\* toolCalls[index]: a read past the end or of a hole is undefined
Slot(arr, index) == IF index + 1 <= Len(arr) THEN arr[index + 1] ELSE Undefined

\* toolCalls[index] = slot: assigning past the end leaves holes
SetSlot(arr, index, slot) ==
  [i \in 1..(IF index + 1 > Len(arr) THEN index + 1 ELSE Len(arr)) |->
     IF i = index + 1 THEN slot
     ELSE IF i <= Len(arr) THEN arr[i] ELSE Undefined]

\* an accumulation that ignores the index: a fragment with an id opens a
\* new slot at the end, and arguments go to the last slot
Ingest_Push(arr, toolCall) ==
  LET arr1 == IF toolCall.id # ""
                THEN Append(arr, [id |-> toolCall.id, name |-> toolCall.name,
                                  arguments |-> <<>>])
                ELSE arr
  IN IF toolCall.arguments # Empty /\ arr1 # <<>>
       THEN [arr1 EXCEPT ![Len(arr1)].arguments = @ \o toolCall.arguments]
       ELSE arr1

\* the accumulation of one fragment into toolCalls
Ingest(arr, toolCall) ==
  LET index == toolCall.index
      arr1 == IF Slot(arr, index) = Undefined
                THEN SetSlot(arr, index, [id |-> toolCall.id, name |-> toolCall.name,
                                          arguments |-> <<>>])
                ELSE arr
  IN IF toolCall.arguments # Empty
       THEN SetSlot(arr1, index,
                    [Slot(arr1, index) EXCEPT !.arguments = @ \o toolCall.arguments])
       ELSE arr1

RECURSIVE IngestAll(_, _)
IngestAll(arr, fragments) ==
  IF fragments = <<>> THEN arr
  ELSE IngestAll(Ingest(arr, Head(fragments)), Tail(fragments))

\* a loop body that emits a token for every chunk, empty text included
EmitToken_Always(r, content) == Write(r, "token", content)

\* a loop body that assigns the delta instead of appending it
Accumulate_Assign(text, content) == IF Truthy(content) THEN content ELSE text

\* the body of the stream loops for the text of a chunk: emit ...
EmitToken(r, content) == IF Truthy(content) THEN Write(r, "token", content) ELSE r

\* ... and append
Accumulate(text, content) == IF Truthy(content) THEN text \o content ELSE text

Receive1(kind, chunk) ==
  [upstream EXCEPT !.received = Append(@, [stream |-> kind, delta |-> chunk])]

\* one iteration of the primary for-await loop, its end, or its failure
StreamPrimaryChunk ==
  /\ pc = "stream_primary"
  /\ \/ \E chunk \in Chunks :
          /\ Len(Received("primary")) < MaxChunks
          /\ upstream' = Receive1("primary", chunk)
          /\ aiResponse' = Accumulate(aiResponse, chunk.content)
          /\ res' = EmitToken(res, chunk.content)
          /\ toolCalls' = IngestAll(toolCalls, chunk.tool_calls)
          /\ UNCHANGED <<pc, error>>
     \/ /\ pc' = IF Len(toolCalls) > 0 THEN "execute_tools" ELSE "persist_assistant"
        /\ UNCHANGED <<upstream, aiResponse, res, toolCalls, error>>
     \/ /\ \E e \in StreamErrors : Throw(e)
        /\ UNCHANGED <<upstream, aiResponse, toolCalls>>
  /\ UNCHANGED <<messages, nextId, unauthMessageCount, req, validatedData,
                 userMessage, conversationMessages, openaiMessages,
                 generatedImageUrl, toolResults, toolIdx, aiMessage, nreq, rate, debateLocals>>

\* ------------------------------------------------------------ EXECUTE_TOOLS
TypeErrorUndefined ==
  [status |-> 0, message |-> <<"Cannot read properties of undefined">>]

ToolResult(toolCall, content) ==
  [tool_call_id |-> toolCall.id, role |-> "tool", content |-> content]

\* an entitlement rule that lets every plan through
Entitled_Everyone(userPlan) == TRUE

\* the entitlement rule of image generation
Entitled(userPlan) == userPlan = "plus" \/ userPlan = "pro"

\* the denial pushed for a caller who is not entitled
ToolDenied(results, toolCall) == Append(results, ToolResult(toolCall, "denied"))

\* a failure that is swallowed without a tool result
ToolFailed_Dropped(results, toolCall) == results

\* the catch block of one tool execution: the failure becomes a tool result
ToolFailed(results, toolCall) == Append(results, ToolResult(toolCall, "failed"))

\* an assignment that keeps the reference of the first image of the turn
SetImage_First(current, url) == IF current # NoImage THEN current ELSE url

\* generatedImageUrl = imageResponse.data[0].url: the reference of this call
\* replaces the one of an earlier call
SetImage(current, url) == url

\* openai.images.generate: one more call, with its outcome
Generate(outcome) ==
  [upstream EXCEPT !.images = @ + 1, !.outcomes = Append(@, outcome)]

\* one iteration of `for (const toolCall of toolCalls)`; for...of visits every
\* position below toolCalls.length, holes included
ExecuteTool ==
  /\ pc = "execute_tools"
  /\ toolIdx < Len(toolCalls)
  /\ LET toolCall == Slot(toolCalls, toolIdx)
         userId == IF isAuthenticated THEN req.caller ELSE Null
         userPlan == IF userId # Null THEN planOf[userId] ELSE "free"
     IN IF toolCall = Undefined
          THEN \* toolCall.function of undefined throws into the outer catch
               /\ Throw(TypeErrorUndefined)
               /\ UNCHANGED <<toolResults, generatedImageUrl, upstream, toolIdx>>
          ELSE IF toolCall.name # "generate_image"
          THEN /\ toolIdx' = toolIdx + 1
               /\ UNCHANGED <<res, toolResults, generatedImageUrl, upstream, pc, error>>
          ELSE \/ /\ userId # Null    \* storage.getUser throws
                  /\ \E e \in StorageErrors : Throw(e)
                  /\ UNCHANGED <<toolResults, generatedImageUrl, upstream, toolIdx>>
               \/ /\ ~Entitled(userPlan)
                  /\ res' = Write(res, "upgrade_required", "image_generation")
                  /\ toolResults' = ToolDenied(toolResults, toolCall)
                  /\ toolIdx' = toolIdx + 1
                  /\ UNCHANGED <<generatedImageUrl, upstream, pc, error>>
               \/ /\ Entitled(userPlan)
                  /\ ~IsJSON(toolCall.arguments)    \* JSON.parse throws
                  /\ toolResults' = ToolFailed(toolResults, toolCall)
                  /\ toolIdx' = toolIdx + 1
                  /\ UNCHANGED <<res, generatedImageUrl, upstream, pc, error>>
               \/ /\ Entitled(userPlan)
                  /\ IsJSON(toolCall.arguments)
                  /\ toolIdx' = toolIdx + 1
                  /\ UNCHANGED <<pc, error>>
                  /\ \/ \* the provider returns an image reference
                        /\ upstream' = Generate("url")
                        /\ generatedImageUrl' =
                             SetImage(generatedImageUrl,
                                      GeneratedImage(upstream.images + 1))
                        /\ res' = Write(res, "image", generatedImageUrl')
                        /\ toolResults' =
                             Append(toolResults, ToolResult(toolCall, "generated"))
                     \/ \* the provider returns no reference
                        /\ upstream' = Generate("no url")
                        /\ UNCHANGED <<generatedImageUrl, res, toolResults>>
                     \/ \* the provider throws
                        /\ upstream' = Generate("throw")
                        /\ toolResults' = ToolFailed(toolResults, toolCall)
                        /\ UNCHANGED <<generatedImageUrl, res>>
  /\ UNCHANGED <<messages, nextId, unauthMessageCount, req, validatedData,
                 userMessage, conversationMessages, openaiMessages, aiResponse,
                 toolCalls, aiMessage, nreq, rate, debateLocals>>

\* a secondary stream after every tool loop, with or without a result
NeedsSecondary_Always(results) == TRUE

\* the secondary stream needs a tool result
NeedsSecondary(results) == Len(results) > 0

\* end of the tool loop
ExecuteToolsEnd ==
  /\ pc = "execute_tools"
  /\ toolIdx = Len(toolCalls)
  /\ pc' = IF NeedsSecondary(toolResults) THEN "open_secondary"
           ELSE "persist_assistant"
  /\ UNCHANGED <<messages, nextId, unauthMessageCount, req, res, locals,
                 upstream, nreq, rate, debateLocals>>

\* --------------------------------------------------------- STREAM_SECONDARY
messagesWithTools ==
  openaiMessages
    \o <<[role |-> "assistant", content |-> aiResponse, tool_calls |-> toolCalls]>>
    \o toolResults

StreamOpenSecondary ==
  /\ pc = "open_secondary"
  /\ upstream' = Call("secondary", messagesWithTools)
  /\ \/ pc' = "stream_secondary" /\ UNCHANGED <<error, res>>
     \/ \E e \in UpstreamErrors : Throw(e)
  /\ UNCHANGED <<messages, nextId, unauthMessageCount, req, validatedData,
                 userMessage, conversationMessages, openaiMessages, streamLocals,
                 aiMessage, nreq, rate, debateLocals>>

\* chunks of the secondary stream: text, or one tool-call fragment
SecondaryChunks ==
  {c \in Chunks :
     c.tool_calls = <<>> \/ (Len(c.tool_calls) = 1 /\ c.tool_calls[1].index = 1)}

\* one iteration of the secondary for-await loop: only text is handled
StreamSecondaryChunk ==
  /\ pc = "stream_secondary"
  /\ \/ \E chunk \in SecondaryChunks :
          /\ Len(Received("secondary")) < MaxSecondaryChunks
          /\ upstream' = Receive1("secondary", chunk)
          /\ aiResponse' = Accumulate(aiResponse, chunk.content)
          /\ res' = EmitToken(res, chunk.content)
          /\ UNCHANGED <<pc, error>>
     \/ /\ pc' = "persist_assistant"
        /\ UNCHANGED <<upstream, aiResponse, res, error>>
     \/ /\ \E e \in StreamErrors : Throw(e)
        /\ UNCHANGED <<upstream, aiResponse>>
  /\ UNCHANGED <<messages, nextId, unauthMessageCount, req, validatedData,
                 userMessage, conversationMessages, openaiMessages,
                 generatedImageUrl, toolCalls, toolResults, toolIdx, aiMessage,
                 nreq, rate, debateLocals>>

\* -------------------------------------------------------- PERSIST_ASSISTANT
\* aiResponse || "I'm sorry, I couldn't generate a response."
AssistantContent(text) == IF Truthy(text) THEN text ELSE Placeholder

AssistantRow ==
  [conversationId |-> validatedData.conversationId, role |-> "assistant",
   content |-> AssistantContent(aiResponse), imageUrl |-> generatedImageUrl]

\* a save that skips a reply without text
SaveReply_SkipEmpty(table, row) ==
  IF row.content = Placeholder THEN table ELSE Append(table, NewMessage(row))

\* the save of the assistant row by the streaming endpoint
SaveReply(table, row) == Append(table, NewMessage(row))

StreamPersistAssistant ==
  /\ pc = "persist_assistant"
  /\ req.kind = "stream"
  /\ \/ /\ messages' = SaveReply(messages, AssistantRow)
        /\ nextId' = nextId + 1
        /\ aiMessage' = nextId + 1
        /\ pc' = "suggestions"
        /\ UNCHANGED <<error, res>>
     \/ /\ \E e \in StorageErrors : Throw(e)
        /\ UNCHANGED <<messages, nextId, aiMessage>>
  /\ UNCHANGED <<unauthMessageCount, req, validatedData, userMessage,
                 conversationMessages, openaiMessages, streamLocals, upstream,
                 nreq, rate, debateLocals>>

\* -------------------------------------------------------------- SUGGESTIONS
\* a parse that keeps every element of the reply
ParseSuggestions_Raw(reply) ==
  IF ~reply.json \/ ~reply.array THEN <<>> ELSE reply.items

\* JSON.parse, Array.isArray, slice(0, 3), filter(s => s && s.trim()); a
\* JSON.parse that throws, and s.trim of an element that is not a string,
\* end in the inner catch, which leaves no suggestion
ParseSuggestions(reply) ==
  IF ~reply.json \/ ~reply.array THEN <<>>
  ELSE LET first == SubSeq(reply.items, 1,
                           IF Len(reply.items) < SuggestionLimit
                             THEN Len(reply.items) ELSE SuggestionLimit)
       IN IF \E i \in 1..Len(first) : first[i] = NotAString
            THEN <<>>
            ELSE SelectSeq(first, LAMBDA x : Truthy(x) /\ Truthy(Trim(x)))

\* a failure of the suggestion request that ends the turn with an error
SuggestionsFailed_Error(r) == Write(r, "error", DefaultErrorMessage)

\* the catch of the suggestion step: the failure is logged and dropped
SuggestionsFailed(r) == r

\* the suggestion request; whatever fails here is caught and dropped
StreamSuggestions ==
  /\ pc = "suggestions"
  /\ upstream' = Call("suggestions", <<>>)
  /\ \/ \E reply \in SuggestionReplies :
          LET suggestions == ParseSuggestions(reply)
          IN res' = IF Len(suggestions) > 0
                      THEN Write(res, "suggestions", suggestions) ELSE res
     \/ res' = SuggestionsFailed(res)    \* the request throws
  /\ pc' = "complete"
  /\ UNCHANGED <<messages, nextId, unauthMessageCount, req, locals, nreq, rate, debateLocals>>

\* ----------------------------------------------------------------- COMPLETE
StreamComplete ==
  /\ pc = "complete"
  /\ res' = End(Write(res, "complete", aiMessage))
  /\ pc' = "done"
  /\ UNCHANGED <<messages, nextId, unauthMessageCount, req, locals, upstream,
                 nreq, rate, debateLocals>>

\* ---------------------------------------------------------------- poll mode
\* the poll endpoint saves the user message, then reads the history
PollPersistUser ==
  /\ pc = "persist_user"
  /\ req.kind = "poll"
  /\ \/ /\ messages' = createMessage(UserRow)
        /\ nextId' = nextId + 1
        /\ userMessage' = nextId + 1
        /\ conversationMessages' = getMessages(messages', validatedData.conversationId)
        /\ pc' = "build_context"
        /\ UNCHANGED <<error, res>>
     \/ \E e \in StorageErrors, inserted \in BOOLEAN :
          /\ IF inserted
               THEN messages' = createMessage(UserRow) /\ nextId' = nextId + 1
               ELSE UNCHANGED <<messages, nextId>>
          /\ Throw(e)
          /\ UNCHANGED <<userMessage, conversationMessages>>
  /\ UNCHANGED <<unauthMessageCount, req, validatedData, openaiMessages,
                 streamLocals, aiMessage, upstream, nreq, rate, debateLocals>>

\* persona selection and instruction set of the poll endpoint
PollBuildContext ==
  /\ pc = "build_context"
  /\ req.kind = "poll"
  /\ LET conversation == getConversation(validatedData.conversationId)
         userId == IF isAuthenticated THEN req.caller ELSE Null
     IN \/ /\ PersonaNeedsUser(conversation, userId)
           /\ res' = Json(401, "Authentication required for custom personas")
           /\ pc' = "done"
           /\ UNCHANGED <<openaiMessages, error>>
        \/ /\ ~PersonaNeedsUser(conversation, userId)
           /\ openaiMessages' =
                <<SystemPrompt(Directive(conversation, userId))>>
                  \o History(conversationMessages)
           /\ pc' = "poll_open"
           /\ UNCHANGED <<res, error>>
        \/ /\ userId # Null    \* getCustomPersona or getUser throws
           /\ \E e \in StorageErrors : Throw(e)
           /\ UNCHANGED openaiMessages
  /\ UNCHANGED <<messages, nextId, unauthMessageCount, req, validatedData,
                 userMessage, conversationMessages, streamLocals, aiMessage,
                 upstream, nreq, rate, debateLocals>>

\* openai.chat.completions.create of the poll endpoint: no tool registry
PollOpenStream ==
  /\ pc = "poll_open"
  /\ upstream' = Call("poll", openaiMessages)
  /\ \/ pc' = "poll_stream" /\ UNCHANGED <<error, res>>
     \/ \E e \in UpstreamErrors : Throw(e)
  /\ UNCHANGED <<messages, nextId, unauthMessageCount, req, validatedData,
                 userMessage, conversationMessages, openaiMessages, streamLocals,
                 aiMessage, nreq, rate, debateLocals>>

\* the buffering for-await loop of the poll endpoint
PollChunk ==
  /\ pc = "poll_stream"
  /\ \/ \E content \in Deltas :
          /\ Len(Received("poll")) < MaxChunks
          /\ upstream' = Receive1("poll", [content |-> content, tool_calls |-> <<>>])
          /\ aiResponse' = Accumulate(aiResponse, content)
          /\ UNCHANGED <<pc, error, res>>
     \/ /\ pc' = "persist_assistant"
        /\ UNCHANGED <<upstream, aiResponse, error, res>>
     \/ /\ \E e \in StreamErrors : Throw(e)
        /\ UNCHANGED <<upstream, aiResponse>>
  /\ UNCHANGED <<messages, nextId, unauthMessageCount, req, validatedData,
                 userMessage, conversationMessages, openaiMessages,
                 generatedImageUrl, toolCalls, toolResults, toolIdx, aiMessage,
                 nreq, rate, debateLocals>>

\* save the reply and answer with one JSON object
PollPersistAssistant ==
  /\ pc = "persist_assistant"
  /\ req.kind = "poll"
  /\ \/ /\ messages' = createMessage([AssistantRow EXCEPT !.imageUrl = NoImage])
        /\ nextId' = nextId + 1
        /\ aiMessage' = nextId + 1
        /\ res' = [res EXCEPT !.status = 200, !.json = "aiMessage", !.ended = TRUE]
        /\ pc' = "done"
        /\ UNCHANGED error
     \/ /\ \E e \in StorageErrors : Throw(e)
        /\ UNCHANGED <<messages, nextId, aiMessage>>
  /\ UNCHANGED <<unauthMessageCount, req, validatedData, userMessage,
                 conversationMessages, openaiMessages, streamLocals, upstream,
                 nreq, rate, debateLocals>>

\* --------------------------------------------------------- image generation
\* bodies of POST /api/generate-image: content stands for the prompt
ImageRequests ==
  [kind : {"image"}, caller : Callers, conversationId : {"cx"},
   content : Contents, imageUrl : {NoImage}, id : {0}, isPinned : {FALSE},
   emoji : {Null}]

\* a client sends POST /api/generate-image
ReceiveImage ==
  /\ pc = "idle"
  /\ \E r \in ImageRequests :
       /\ Receive(r)
       /\ pc' = "generate_image"

\* POST /api/generate-image: entitlement, prompt, provider call
GenerateImage ==
  /\ pc = "generate_image"
  /\ LET userId == IF isAuthenticated THEN req.caller ELSE Null
         userPlan == IF userId # Null THEN planOf[userId] ELSE "free"
         prompt == req.content
     IN \/ /\ userId # Null    \* storage.getUser throws
           /\ res' = Json(500, "Failed to generate image")
           /\ UNCHANGED upstream
        \/ /\ ~Entitled(userPlan)
           /\ res' = Json(403, "Image generation is only available for Plus and Pro subscribers")
           /\ UNCHANGED upstream
        \/ /\ Entitled(userPlan)
           /\ prompt = Missing \/ ~Truthy(prompt) \/ ~Truthy(Trim(prompt))
           /\ res' = Json(400, "Prompt is required")
           /\ UNCHANGED upstream
        \/ /\ Entitled(userPlan)
           /\ ~(prompt = Missing \/ ~Truthy(prompt) \/ ~Truthy(Trim(prompt)))
           /\ \E outcome \in {"url", "no url", "throw"} :
                /\ upstream' = Generate(outcome)
                /\ res' = IF outcome = "url" THEN Json(200, "imageUrl")
                          ELSE Json(500, "Failed to generate image")
  /\ pc' = "done"
  /\ UNCHANGED <<messages, nextId, unauthMessageCount, req, locals, nreq, rate, debateLocals>>

\* -------------------------------------------------------- message operations
Emojis == {"+1"}

MessageRequests ==
  [kind : {"edit", "pin", "reaction"}, caller : Callers, conversationId : {"cx"},
   content : Contents \cup {Empty}, imageUrl : {NoImage}, id : 1..(nextId + 1),
   isPinned : BOOLEAN, emoji : Emojis \cup {Null}]

\* only the fields an operation reads are drawn
Relevant(r) ==
  /\ r.kind # "edit" <=> r.content = Empty
  /\ r.kind # "pin" => r.isPinned = FALSE
  /\ r.kind # "reaction" => r.emoji = Null

\* a client sends PATCH /api/messages/:id, PATCH /api/messages/:id/pin or
\* POST /api/messages/:id/reaction
ReceiveMessageOp ==
  /\ pc \in {"idle", "curating"}
  /\ \E r \in MessageRequests :
       /\ Relevant(r)
       /\ Receive(r)
       /\ pc' = "message_op"

\* the ownership rule that only asks for some authenticated caller
Unauthorized_AnyUser(conversation) ==
  /\ conversation.userId # Null
  /\ ~isAuthenticated

\* the ownership rule of the message operations: an owned conversation
\* admits its owner only
Unauthorized(conversation) ==
  /\ conversation.userId # Null
  /\ (~isAuthenticated \/ conversation.userId # req.caller)

\* DatabaseStorage.updateMessage
updateMessage(table, id, content) ==
  [i \in 1..Len(table) |->
     IF table[i].id = id
       THEN [table[i] EXCEPT !.content = content, !.edited = TRUE]
       ELSE table[i]]

IndexOf(rows, id) ==
  IF \E i \in 1..Len(rows) : rows[i].id = id
    THEN CHOOSE i \in 1..Len(rows) :
           rows[i].id = id /\ \A j \in 1..(i - 1) : rows[j].id # id
    ELSE 0

\* a deletion of every later row of the table, whatever its conversation
deleteMessagesAfter_Table(table, messageId, conversationId) ==
  IF IndexOf(table, messageId) = 0 THEN table
  ELSE SubSeq(table, 1, IndexOf(table, messageId))

\* DatabaseStorage.deleteMessagesAfter
deleteMessagesAfter(table, messageId, conversationId) ==
  LET allMessages == getMessages(table, conversationId)
      messageIndex == IndexOf(allMessages, messageId)
      messagesToDelete ==
        {allMessages[i].id : i \in (messageIndex + 1)..Len(allMessages)}
  IN IF messageIndex = 0 THEN table
     ELSE SelectSeq(table, LAMBDA m : m.id \notin messagesToDelete)

\* DatabaseStorage.pinMessage
pinMessage(table, id, isPinned) ==
  [i \in 1..Len(table) |->
     IF table[i].id = id
       THEN [table[i] EXCEPT !.isPinned = IF isPinned THEN "true" ELSE "false"]
       ELSE table[i]]

\* a reaction that is always appended
Toggle_Append(currentReactions, reaction) == Append(currentReactions, reaction)

\* the reactions of a message after one more reaction: the pair
\* (emoji, userId) is removed when present and appended otherwise
Toggle(currentReactions, reaction) ==
  LET existingIndex ==
        IF \E i \in 1..Len(currentReactions) : currentReactions[i] = reaction
          THEN CHOOSE i \in 1..Len(currentReactions) :
                 /\ currentReactions[i] = reaction
                 /\ \A j \in 1..(i - 1) : currentReactions[j] # reaction
          ELSE 0
  IN IF existingIndex > 0
       THEN [i \in 1..(Len(currentReactions) - 1) |->
               IF i < existingIndex THEN currentReactions[i]
               ELSE currentReactions[i + 1]]
       ELSE Append(currentReactions, reaction)

\* DatabaseStorage.addReaction
addReaction(table, id, reaction) ==
  [i \in 1..Len(table) |->
     IF table[i].id = id
       THEN [table[i] EXCEPT !.reactions = Toggle(@, reaction)]
       ELSE table[i]]

\* the lookups and the ownership check shared by the three operations;
\* "ok" when the operation may proceed
Target(message) ==
  IF message = {} THEN [status |-> 404, body |-> "Message not found"]
  ELSE LET m == CHOOSE x \in message : TRUE
           conversation == getConversation(m.conversationId)
       IN IF req.kind = "edit" /\ m.role # "user"
            THEN [status |-> 400, body |-> "Can only edit user messages"]
          ELSE IF conversation = NoConversation
            THEN [status |-> 404, body |-> "Conversation not found"]
          ELSE IF Unauthorized(conversation)
            THEN [status |-> 403, body |-> "Unauthorized"]
          ELSE [status |-> 200, body |-> "ok"]

\* PATCH /api/messages/:id
EditMessage ==
  /\ pc = "message_op"
  /\ req.kind = "edit"
  /\ LET message == getMessage(req.id)
         target == Target(message)
     IN IF req.content = Missing \/ ~Truthy(req.content) \/ ~Truthy(Trim(req.content))
          THEN res' = Json(400, "Content is required") /\ UNCHANGED messages
        ELSE IF target.status # 200
          THEN res' = Json(target.status, target.body) /\ UNCHANGED messages
        ELSE \/ /\ messages' =
                     deleteMessagesAfter(
                       updateMessage(messages, req.id, Trim(req.content)),
                       req.id, (CHOOSE x \in message : TRUE).conversationId)
                /\ res' = Json(200, "success")
             \/ \* a persistence call throws before anything was written
                /\ res' = Json(500, "Failed to edit message")
                /\ UNCHANGED messages
  /\ pc' = "done"
  /\ UNCHANGED <<nextId, unauthMessageCount, req, locals, upstream, nreq, rate, debateLocals>>

\* PATCH /api/messages/:id/pin
PinMessage ==
  /\ pc = "message_op"
  /\ req.kind = "pin"
  /\ LET target == Target(getMessage(req.id))
     IN IF target.status # 200
          THEN res' = Json(target.status, target.body) /\ UNCHANGED messages
        ELSE \/ /\ messages' = pinMessage(messages, req.id, req.isPinned)
                /\ res' = Json(200, "updatedMessage")
             \/ /\ res' = Json(500, "Failed to pin message")
                /\ UNCHANGED messages
  /\ pc' = "done"
  /\ UNCHANGED <<nextId, unauthMessageCount, req, locals, upstream, nreq, rate, debateLocals>>

\* POST /api/messages/:id/reaction
AddReaction ==
  /\ pc = "message_op"
  /\ req.kind = "reaction"
  /\ LET target == Target(getMessage(req.id))
         userId == IF isAuthenticated THEN req.caller ELSE Anonymous
     IN IF req.emoji = Null
          THEN res' = Json(400, "Emoji is required") /\ UNCHANGED messages
        ELSE IF target.status # 200
          THEN res' = Json(target.status, target.body) /\ UNCHANGED messages
        ELSE \/ /\ messages' = addReaction(messages, req.id,
                                           [emoji |-> req.emoji, userId |-> userId])
                /\ res' = Json(200, "updatedMessage")
             \/ /\ res' = Json(500, "Failed to add reaction")
                /\ UNCHANGED messages
  /\ pc' = "done"
  /\ UNCHANGED <<nextId, unauthMessageCount, req, locals, upstream, nreq, rate, debateLocals>>

\* ------------------------------------------------------------ specification
Next ==
  \/ ReceiveTurn
  \/ Validate
  \/ RateLimit
  \/ Lookup
  \/ StreamPersistUser
  \/ StreamBuildContext
  \/ StreamOpenPrimary
  \/ StreamPrimaryChunk
  \/ ExecuteTool
  \/ ExecuteToolsEnd
  \/ StreamOpenSecondary
  \/ StreamSecondaryChunk
  \/ StreamPersistAssistant
  \/ StreamSuggestions
  \/ StreamComplete
  \/ PollPersistUser
  \/ PollBuildContext
  \/ PollOpenStream
  \/ PollChunk
  \/ PollPersistAssistant
  \/ ReceiveImage
  \/ GenerateImage
  \/ ReceiveMessageOp
  \/ EditMessage
  \/ PinMessage
  \/ AddReaction
  \/ Return

Spec == Init /\ [][Next]_vars

\* the steps of a handler in flight: every await of a handler returns or
\* throws, so a handler that can take a step eventually takes one
Step ==
  \/ Validate
  \/ RateLimit
  \/ Lookup
  \/ StreamPersistUser
  \/ StreamBuildContext
  \/ StreamOpenPrimary
  \/ StreamPrimaryChunk
  \/ ExecuteTool
  \/ ExecuteToolsEnd
  \/ StreamOpenSecondary
  \/ StreamSecondaryChunk
  \/ StreamPersistAssistant
  \/ StreamSuggestions
  \/ StreamComplete
  \/ PollPersistUser
  \/ PollBuildContext
  \/ PollOpenStream
  \/ PollChunk
  \/ PollPersistAssistant
  \/ GenerateImage
  \/ EditMessage
  \/ PinMessage
  \/ AddReaction

SpecLive == Init /\ [][Next]_vars /\ WF_vars(Step)

\* -------------------------------------------------------------------- debate
\* POST /api/debate: two personas speak in turn for a fixed number of rounds
Rounds == 3

\* the built-in personas: id and display name
personas ==
  { [id |-> <<"general">>, name |-> "Fizz"],
    [id |-> <<"code-expert">>, name |-> "Code Expert"],
    [id |-> <<"teacher">>, name |-> "Patient Teacher"] }

\* personas.find(p => p.id === id)?.name || fallback
PersonaName(id, fallback) ==
  IF \E p \in personas : p.id = id
    THEN (CHOOSE p \in personas : p.id = id).name
    ELSE fallback

persona1Name == PersonaName(req.persona1, "Persona 1")
persona2Name == PersonaName(req.persona2, "Persona 2")

\* bodies of POST /api/debate: a field may be missing
DebateRequests ==
  [kind : {"debate"}, caller : Callers, conversationId : {"c0", "c1", "cx"},
   content : {Empty}, imageUrl : {NoImage}, id : {0}, isPinned : {FALSE},
   emoji : {Null}, topic : {"t"},
   persona1 : {<<"general">>, <<"pirate">>},
   persona2 : {<<"general">>, <<"teacher">>}]
    \cup [kind : {"debate"}, caller : {Anonymous}, conversationId : {"c0", Null},
          content : {Empty}, imageUrl : {NoImage}, id : {0}, isPinned : {FALSE},
          emoji : {Null}, topic : {"t", Null}, persona1 : {<<"general">>},
          persona2 : {<<"teacher">>, Missing}]

\* a client sends POST /api/debate; the handler never reads the messages
\* table, and a debate is started on a table without messages
ReceiveDebate ==
  /\ pc = "idle"
  /\ messages = <<>>
  /\ \E r \in DebateRequests :
       /\ Receive(r)
       /\ pc' = "debate_validate"

\* a comparison that lets equal personas through
SamePersona_Never(p1, p2) == FALSE

\* persona1 === persona2
SamePersona(p1, p2) == p1 = p2

\* the checks of the body, ahead of every await
DebateValidate ==
  /\ pc = "debate_validate"
  /\ IF \/ req.conversationId = Null \/ req.topic = Null
        \/ req.persona1 = Missing \/ req.persona2 = Missing
       THEN res' = Json(400, "Missing required fields") /\ pc' = "done"
       ELSE IF SamePersona(req.persona1, req.persona2)
       THEN res' = Json(400, "Personas must be different") /\ pc' = "done"
       ELSE UNCHANGED res /\ pc' = "debate_lookup"
  /\ UNCHANGED <<messages, nextId, unauthMessageCount, req, locals, upstream,
                 nreq, rate, debateLocals>>

\* a catch block inside the loop: the error frame is written and the loop
\* goes on with the next utterance
DebateCatch_Resume(e) ==
  /\ error' = e
  /\ res' = Write(res, "error", "Failed to generate debate")
  /\ pc' = "debate_speaker"

\* the catch block of the debate handler: one error frame, then the end
DebateCatch(e) ==
  /\ error' = e
  /\ res' = End(Write(res, "error", "Failed to generate debate"))
  /\ pc' = "done"

\* storage.getConversation returns: a missing conversation is answered 404;
\* otherwise the stream headers are set and the loop starts
DebateLookup ==
  /\ pc = "debate_lookup"
  /\ \/ /\ getConversation(req.conversationId) = NoConversation
        /\ res' = Json(404, "Conversation not found")
        /\ pc' = "done"
        /\ UNCHANGED error
     \/ /\ getConversation(req.conversationId) # NoConversation
        /\ res' = [res EXCEPT !.sse = TRUE]
        /\ pc' = "debate_speaker"
        /\ UNCHANGED error
     \/ \E e \in StorageErrors : DebateCatch(e)
  /\ UNCHANGED <<messages, nextId, unauthMessageCount, req, validatedData,
                 userMessage, conversationMessages, openaiMessages, streamLocals,
                 aiMessage, upstream, nreq, rate, debateLocals>>

\* the persona whose turn it is, and its display name
Persona == IF speaker = 1 THEN req.persona1 ELSE req.persona2
PersonaDisplayName == IF speaker = 1 THEN persona1Name ELSE persona2Name

\* persona1Prompt / persona2Prompt: the name, the topic and the round
PersonaPrompt ==
  [role |-> "user", content |-> <<PersonaDisplayName, req.topic, round>>]

\* the messages of the request of one utterance
DebateMessages ==
  <<[role |-> "system", content |-> getPersonaSystemPrompt(Persona)]>>
    \o conversationHistory
    \o <<PersonaPrompt>>

\* the speaker frame is written, then the streaming request is made
DebateSpeaker ==
  /\ pc = "debate_speaker"
  /\ personaText' = Empty
  /\ upstream' = Call("debate", DebateMessages)
  /\ \/ /\ res' = Write(res, "speaker", PersonaDisplayName)
        /\ pc' = "debate_stream"
        /\ UNCHANGED error
     \/ \E e \in UpstreamErrors :
          /\ error' = e
          /\ res' = End(Write(Write(res, "speaker", PersonaDisplayName),
                              "error", "Failed to generate debate"))
          /\ pc' = "done"
  /\ UNCHANGED <<messages, nextId, unauthMessageCount, req, validatedData,
                 userMessage, conversationMessages, openaiMessages, streamLocals,
                 aiMessage, nreq, rate, round, speaker, conversationHistory>>

\* a token frame of the debate names the persona that speaks
WriteToken(r, persona, content) ==
  IF Truthy(content)
    THEN [r EXCEPT !.frames = Append(@, [type |-> "token", speaker |-> persona,
                                         data |-> content])]
    ELSE r

\* delta.content of the next chunk of an utterance: empty, or a piece of
\* text that no other chunk of the debate carries
DebateDeltas == {Empty, <<ToString(Len(upstream.received) + 1)>>}

\* one iteration of the for-await loop of an utterance, its end, or its
\* failure
DebateChunk ==
  /\ pc = "debate_stream"
  /\ \/ \E content \in DebateDeltas :
          /\ Len(Received("debate")) < MaxDebateChunks
          /\ upstream' = Receive1("debate", [content |-> content,
                                             tool_calls |-> <<>>])
          /\ personaText' = Accumulate(personaText, content)
          /\ res' = WriteToken(res, Persona, content)
          /\ UNCHANGED <<pc, error>>
     \/ /\ pc' = "debate_save"
        /\ UNCHANGED <<upstream, personaText, res, error>>
     \/ /\ \E e \in StreamErrors : DebateCatch(e)
        /\ UNCHANGED <<upstream, personaText>>
  /\ UNCHANGED <<messages, nextId, unauthMessageCount, req, validatedData,
                 userMessage, conversationMessages, openaiMessages, streamLocals,
                 aiMessage, nreq, rate, round, speaker, conversationHistory>>

\* `**${personaName}**: ${personaText}`
Labelled(name, text) == <<"**", name, "**: ">> \o text

\* the row of one utterance
UtteranceRow ==
  [conversationId |-> req.conversationId, role |-> "assistant",
   content |-> Labelled(PersonaDisplayName, personaText), imageUrl |-> NoImage]

\* a push that puts the utterance ahead of the earlier ones
PushUtterance_Front(history, text) ==
  <<[role |-> "assistant", content |-> text]>> \o history

\* conversationHistory.push({ role: "assistant", content: personaText })
PushUtterance(history, text) ==
  Append(history, [role |-> "assistant", content |-> text])

\* the utterance is saved and pushed to the transcript; the other persona,
\* or the next round, follows
DebateSave ==
  /\ pc = "debate_save"
  /\ \/ /\ messages' = createMessage(UtteranceRow)
        /\ nextId' = nextId + 1
        /\ conversationHistory' = PushUtterance(conversationHistory, personaText)
        /\ speaker' = IF speaker = 1 THEN 2 ELSE 1
        /\ round' = IF speaker = 1 THEN round ELSE round + 1
        /\ pc' = IF speaker = 2 /\ round + 1 = Rounds THEN "debate_complete"
                 ELSE "debate_speaker"
        /\ UNCHANGED <<res, error>>
     \/ /\ \E e \in StorageErrors : DebateCatch(e)
        /\ UNCHANGED <<messages, nextId, conversationHistory, speaker, round>>
  /\ UNCHANGED <<unauthMessageCount, req, validatedData, userMessage,
                 conversationMessages, openaiMessages, streamLocals, aiMessage,
                 upstream, nreq, rate, personaText>>

\* the complete frame of a debate, and the end of the response
DebateComplete ==
  /\ pc = "debate_complete"
  /\ res' = End(Write(res, "complete", [success |-> TRUE, rounds |-> Rounds]))
  /\ pc' = "done"
  /\ UNCHANGED <<messages, nextId, unauthMessageCount, req, locals, upstream,
                 nreq, rate, debateLocals>>

NextDebate ==
  \/ ReceiveDebate
  \/ DebateValidate
  \/ DebateLookup
  \/ DebateSpeaker
  \/ DebateChunk
  \/ DebateSave
  \/ DebateComplete
  \/ Return

SpecDebate == Init /\ [][NextDebate]_vars

\* ------------------------------------------------------------------ curation
\* The operations on the messages of conversations that already hold
\* messages: edit, reaction and delete. The table holds the rows that
\* completed turns left in the two conversations, in creation order: in each
\* conversation a user row and an assistant row alternate, and the rows of
\* the two conversations interleave in any way.
StoredRow(i, conversationId, role) ==
  [id |-> i, conversationId |-> conversationId, role |-> role,
   content |-> <<"m">>, imageUrl |-> NoImage, isPinned |-> "false",
   reactions |-> <<>>, edited |-> FALSE, turn |-> 0]

\* the role of the i-th row: the rows of a conversation start with a user row
RoleAt(c, i) ==
  IF Cardinality({j \in 1..(i - 1) : c[j] = c[i]}) % 2 = 0 THEN "user"
  ELSE "assistant"

Tables ==
  UNION {
    { [i \in 1..n |-> StoredRow(i, c[i], RoleAt(c, i))] :
        c \in [1..n -> {"c0", "c1"}] } :
    n \in 0..MaxRows }

InitCurate ==
  /\ messages \in Tables
  /\ nextId = Len(messages)
  /\ InitHandler
  /\ unauthMessageCount = MESSAGE_LIMIT - 1

CurateEmojis == {"+1", "-1"}

\* edit, reaction and delete requests; only the fields an operation reads
\* are drawn
CurateRequests ==
  [kind : {"edit"}, caller : Callers, conversationId : {"cx"},
   content : {<<" ">>, <<"h", "i">>}, imageUrl : {NoImage}, id : 1..(nextId + 1),
   isPinned : {FALSE}, emoji : {Null}]
    \cup [kind : {"reaction"}, caller : Callers, conversationId : {"cx"},
          content : {Empty}, imageUrl : {NoImage}, id : 1..(nextId + 1),
          isPinned : {FALSE}, emoji : CurateEmojis \cup {Null}]
    \cup [kind : {"delete"}, caller : Callers, conversationId : {"cx"},
          content : {Empty}, imageUrl : {NoImage}, id : 1..(nextId + 1),
          isPinned : {FALSE}, emoji : {Null}]

\* a client sends PATCH /api/messages/:id, POST /api/messages/:id/reaction
\* or DELETE /api/messages/:id
ReceiveCurate ==
  /\ pc \in {"idle", "curating"}
  /\ \E r \in CurateRequests :
       /\ Receive(r)
       /\ pc' = "message_op"

\* DatabaseStorage.deleteMessage
deleteMessage(table, id) == SelectSeq(table, LAMBDA m : m.id # id)

\* DELETE /api/messages/:id: the row is deleted by id, with no lookup of
\* the message or of its conversation
DeleteMessage ==
  /\ pc = "message_op"
  /\ req.kind = "delete"
  /\ \/ /\ messages' = deleteMessage(messages, req.id)
        /\ res' = [res EXCEPT !.status = 204, !.ended = TRUE]
     \/ /\ res' = Json(500, "Failed to delete message")
        /\ UNCHANGED messages
  /\ pc' = "done"
  /\ UNCHANGED <<nextId, unauthMessageCount, req, locals, upstream, nreq, rate,
                 debateLocals>>

NextCurate ==
  \/ ReceiveCurate
  \/ EditMessage
  \/ AddReaction
  \/ DeleteMessage
  \/ Return

SpecCurate == InitCurate /\ [][NextCurate]_vars

\* ------------------------------------------------------------- cancellation
\* the client closes the connection of a streaming turn while the stream is
\* open: the socket emits close. The handlers register no listener for it
\* and never read res.destroyed or res.writableEnded, so nothing else
\* changes: the handler in flight goes on as before
Disconnect ==
  /\ req.kind = "stream"
  /\ res.sse /\ ~res.ended
  /\ res.closedAt = -1
  /\ res' = [res EXCEPT !.closedAt = Len(res.frames)]
  /\ UNCHANGED <<messages, nextId, unauthMessageCount, pc, req, locals,
                 upstream, nreq, rate, debateLocals>>

NextCancel == Next \/ Disconnect

SpecCancel == Init /\ [][NextCancel]_vars

\* ------------------------------------------- the Rate Counter under overlap
\* Two turn requests of one anonymous session may be in flight together.
\* Each works on the session object loaded when it arrived; the session is
\* written back to the store when its response ends, if it was modified.
\* unauthMessageCount is the value in the store; slot[i].session is
\* req.session.unauthMessageCount of request i.

InFlight(i) == rate.slot[i].pc # "done"

\* the session store hands the request a copy of the stored session
LoadSession == unauthMessageCount

\* the session of a request is written back when its response ends
SaveSession(session) == session

\* a turn request arrives: session load, validation (the body is valid) and
\* the limit check run without interruption
RateAdmit(i) ==
  /\ ~InFlight(i)
  /\ rate.admitted < MaxAdmitted
  /\ LET currentCount == LoadSession
         fresh == [IdleSlot EXCEPT !.read = currentCount,
                                   !.after = rate.succeeded]
     IN IF LimitReached(currentCount)
          THEN rate' = [rate EXCEPT
                          !.slot[i] = [fresh EXCEPT !.session = currentCount,
                                                    !.status = 429]]
          ELSE rate' = [rate EXCEPT
                          !.slot[i] = [fresh EXCEPT !.session = currentCount + 1,
                                                    !.pc = "lookup"],
                          !.admitted = @ + 1,
                          !.overlapped = @ \/ \E j \in Slots \ {i} : InFlight(j)]
  /\ UNCHANGED <<messages, nextId, unauthMessageCount, pc, req, res, locals,
                 upstream, nreq,
                 debateLocals>>

\* the conversation lookup returns: a missing conversation ends the response
RateLookup(i) ==
  /\ rate.slot[i].pc = "lookup"
  /\ \/ /\ rate' = [rate EXCEPT !.slot[i].pc = "done", !.slot[i].status = 404]
        /\ unauthMessageCount' = SaveSession(rate.slot[i].session)
     \/ /\ rate' = [rate EXCEPT !.slot[i].pc = "turn"]
        /\ UNCHANGED unauthMessageCount
  /\ UNCHANGED <<messages, nextId, pc, req, res, locals, upstream, nreq,
                 debateLocals>>

\* the turn runs: the user message is persisted and the upstream model is
\* called; the turn completes or fails, and the response ends
RateTurn(i) ==
  /\ rate.slot[i].pc = "turn"
  /\ \E ok \in BOOLEAN :
       rate' = [rate EXCEPT !.slot[i].pc = "done",
                            !.slot[i].status = IF ok THEN 200 ELSE 500,
                            !.slot[i].wrote = TRUE,
                            !.slot[i].called = TRUE,
                            !.succeeded = IF ok THEN @ + 1 ELSE @]
  /\ unauthMessageCount' = SaveSession(rate.slot[i].session)
  /\ UNCHANGED <<messages, nextId, pc, req, res, locals, upstream, nreq,
                 debateLocals>>

NextRate ==
  \/ \E i \in Slots : RateAdmit(i)
  \/ \E i \in Slots : RateLookup(i)
  \/ \E i \in Slots : RateTurn(i)

SpecRate == InitRate /\ [][NextRate]_vars

\* ================================================================== claims
Rows == {messages[i] : i \in 1..Len(messages)}

\* the assistant messages persisted by the request in flight
AssistantRows == {m \in Rows : m.turn = nreq /\ m.role = "assistant"}

\* the user messages persisted by the request in flight
UserRows == {m \in Rows : m.turn = nreq /\ m.role = "user"}

Emitted(type) == Len(Frames(type)) > 0

Called(kind) == \E i \in 1..Len(upstream.calls) : upstream.calls[i].kind = kind

RECURSIVE Concat(_)
Concat(ss) == IF ss = <<>> THEN <<>> ELSE Head(ss) \o Concat(Tail(ss))

\* the data of the token frames written so far
TokenData == [i \in 1..Len(Frames("token")) |-> Frames("token")[i].data]

\* the streaming turn in flight was admitted: it passed validation, the
\* limit, the lookup and the ownership check
Admitted == req.kind = "stream" /\ res.sse

\* C1 as stated: every admitted streaming turn that has ended persisted
\* exactly one assistant message.
C1_ExactlyOne ==
  (Admitted /\ pc = "done") => Cardinality(AssistantRows) = 1

\* C1 as amended: an admitted streaming turn never persists two assistant
\* messages; when it has ended it persisted exactly one if it emitted
\* complete, and none if it ended with an error event or a 401.
C1_AtMostOne ==
  Admitted =>
    /\ Cardinality(AssistantRows) <= 1
    /\ pc = "done" => (Cardinality(AssistantRows) = 1 <=> Emitted("complete"))

C1_Witness ==
  /\ Admitted /\ pc = "done"
  /\ Emitted("complete")
  /\ Called("secondary")
  /\ Cardinality(AssistantRows) = 1

\* C2 as stated: a request that arrives after 15 successful turns of the
\* session is rejected with 429, persists no user message and makes no
\* upstream call.
C2_SixteenthRejected ==
  \A i \in Slots :
    rate.slot[i].after = MESSAGE_LIMIT =>
      /\ rate.slot[i].pc = "done"
      /\ rate.slot[i].status = 429
      /\ ~rate.slot[i].wrote
      /\ ~rate.slot[i].called

\* C3 as stated: the Rate Counter never decreases, never exceeds 15, and a
\* request that finds it at or above 15 is rejected and leaves it unchanged.
C3_Monotone ==
  [][/\ unauthMessageCount' >= unauthMessageCount
     /\ unauthMessageCount' <= MESSAGE_LIMIT
     /\ \A i \in Slots :
          (~InFlight(i) /\ rate'.slot[i] # rate.slot[i]
             /\ unauthMessageCount >= MESSAGE_LIMIT)
            => (rate'.slot[i].status = 429 /\ UNCHANGED unauthMessageCount)]_vars

\* C4: every admitted request read a counter below the limit, and the
\* number of admitted requests of a session exceeds the limit only when two
\* requests overlapped; the witness is a session with 16 admitted requests,
\* the last two having read the same value.
C4_Overshoot ==
  /\ \A i \in Slots : InFlight(i) => rate.slot[i].read < MESSAGE_LIMIT
  /\ unauthMessageCount <= MESSAGE_LIMIT
  /\ rate.admitted > MESSAGE_LIMIT => rate.overlapped

C4_Witness ==
  /\ rate.admitted = MESSAGE_LIMIT + 1
  /\ InFlight(1) /\ InFlight(2)
  /\ rate.slot[1].read = rate.slot[2].read

\* the conversation a request is addressed to: the one named by a turn
\* request, the one of the message named by a message operation
TargetConversation ==
  IF req.kind \in {"stream", "poll"} THEN getConversation(req.conversationId)
  ELSE IF getMessage(req.id) = {} THEN NoConversation
  ELSE getConversation((CHOOSE m \in getMessage(req.id) : TRUE).conversationId)

\* the caller is authenticated and the conversation belongs to someone else
NonOwner ==
  /\ req.kind \in {"stream", "poll", "edit", "pin", "reaction"}
  /\ isAuthenticated
  /\ TargetConversation # NoConversation
  /\ TargetConversation.userId # Null
  /\ TargetConversation.userId # req.caller

\* the request passes the validation that precedes the ownership check
WellFormed ==
  CASE req.kind \in {"stream", "poll"} -> SchemaOk(req) /\ ImageCheck(req.imageUrl) = "ok"
    [] req.kind = "edit" ->
         /\ req.content # Missing /\ Trim(req.content) # Empty
         /\ \A m \in getMessage(req.id) : m.role = "user"
    [] req.kind = "reaction" -> req.emoji # Null
    [] OTHER -> TRUE

ClientErrors == {400, 401, 403, 404, 429}

\* C6 as stated: a streaming turn answered with a structured 4xx response
\* has not set the stream headers and has persisted no message.
C6_RejectBeforeStream ==
  (req.kind = "stream" /\ res.status \in ClientErrors) =>
     (~res.sse /\ UserRows = {} /\ AssistantRows = {})

\* C7 as stated: a streaming turn whose content is empty after trimming is
\* answered 400 by the validation step, sets no stream headers, persists no
\* message and makes no upstream call.
C7_BlankRejected ==
  (/\ req.kind = "stream"
   /\ req.content # Missing
   /\ Trim(req.content) = Empty
   /\ pc # "validating") =>
     /\ res.status = 400
     /\ ~res.sse
     /\ UserRows = {}
     /\ upstream.calls = <<>>

\* the user message of the streaming turn in flight is in the table
UserPersisted ==
  \E m \in UserRows :
    /\ m.id = userMessage
    /\ m.conversationId = req.conversationId
    /\ m.content = req.content

\* C8: in a streaming turn the user message has been persisted whenever an
\* upstream call was made or a token was emitted, and once persisted it is
\* in the table at every later state of the turn, the states after the
\* error frame included.
C8_UserFirst ==
  req.kind = "stream" =>
    /\ (upstream.calls # <<>> \/ Emitted("token")) => userMessage # 0
    /\ userMessage # 0 => UserPersisted

C8_Witness ==
  /\ req.kind = "stream" /\ pc = "done"
  /\ Emitted("error") /\ Emitted("token")
  /\ UserPersisted

\* C9: the token frames written are the non-empty text deltas received, one
\* frame per delta, in delivery order; while the primary stream is read
\* nothing but tokens is written, so a tool-call fragment writes no frame.
C9_TokensAreDeltas ==
  req.kind = "stream" =>
    /\ TokenData = TextDeltas
    /\ pc = "stream_primary" => Len(res.frames) = 1 + Len(TextDeltas)
    /\ pc = "stream_secondary" =>
         Len(res.frames) = 1 + Len(TextDeltas) + Len(Frames("upgrade_required"))
                             + Len(Frames("image"))

C9_Witness ==
  /\ req.kind = "stream"
  /\ TokenData = << <<"a">>, <<"b">> >>
  /\ \E i \in 1..Len(upstream.received) :
       upstream.received[i].delta.tool_calls # <<>>
  /\ Len(Received("secondary")) = MaxSecondaryChunks

\* C10: the persisted assistant message holds the concatenation of the
\* token frames of the turn in emission order, or the placeholder when no
\* text was produced; it is never empty.
C10_ContentIsTokens ==
  (req.kind = "stream" /\ aiMessage # 0) =>
    \E m \in AssistantRows :
      /\ m.id = aiMessage
      /\ m.content # Empty
      /\ m.content = IF Concat(TokenData) = Empty THEN Placeholder
                     ELSE Concat(TokenData)

C10_Witness ==
  /\ req.kind = "stream" /\ pc = "done" /\ aiMessage # 0
  /\ Len(Received("primary")) > 0 /\ Len(Received("secondary")) > 0
  /\ \E m \in AssistantRows : m.content = <<"a", "b">>

\* the terminal frames written so far
TerminalFrames ==
  SelectSeq(res.frames, LAMBDA f : f.type \in {"complete", "error"})

\* C11 as stated: once the stream headers of a streaming turn are set, at
\* most one terminal frame (complete or error) is written, it is the last
\* frame and the response is ended with it, and a response that has ended
\* wrote exactly one terminal frame.
C11_OneTerminal ==
  (req.kind = "stream" /\ res.sse) =>
    /\ Len(TerminalFrames) <= 1
    /\ Len(TerminalFrames) = 1 =>
         /\ res.frames[Len(res.frames)].type \in {"complete", "error"}
         /\ res.ended
    /\ pc = "done" => res.ended
    /\ res.ended => Len(TerminalFrames) = 1

\* the text received from the stream of one kind
TextOf(kind) ==
  {Received(kind)[i].delta.content : i \in 1..Len(Received(kind))} \ {Empty}

\* frame i of the response is a token of the stream of one kind, is an
\* event of the tool loop
IsToken(i, kind) ==
  res.frames[i].type = "token" /\ res.frames[i].data \in TextOf(kind)

IsToolEvent(i) == res.frames[i].type \in {"upgrade_required", "image"}

FrameTypes == [i \in 1..Len(res.frames) |-> res.frames[i].type]

\* C12: in a streaming turn the userMessage frame is the first frame and
\* precedes every token; primary tokens precede the events of the tool
\* loop, which precede the secondary tokens; the assistant message is
\* persisted after the last token (it holds all of them, and the handler
\* is past both streams) and before any suggestions frame; the complete
\* frame is written after the assistant message is persisted, carries it
\* and is the last frame.
C12_StepOrder ==
  req.kind = "stream" =>
    /\ \A i \in 1..Len(res.frames) :
         /\ res.frames[i].type = "token" =>
              /\ i > 1
              /\ res.frames[1] = [type |-> "userMessage", data |-> userMessage]
         /\ res.frames[i].type \in {"suggestions", "complete"} => aiMessage # 0
         /\ res.frames[i].type = "complete" =>
              /\ res.frames[i].data = aiMessage
              /\ i = Len(res.frames)
    /\ \A i, j \in 1..Len(res.frames) :
         i < j =>
           /\ ~(res.frames[i].type # "userMessage" /\ res.frames[j].type = "userMessage")
           /\ ~(IsToolEvent(i) /\ IsToken(j, "primary"))
           /\ ~(IsToken(i, "secondary") /\ IsToken(j, "primary"))
           /\ ~(IsToken(i, "secondary") /\ IsToolEvent(j))
           /\ ~(res.frames[i].type = "suggestions" /\ res.frames[j].type = "token")
    /\ aiMessage # 0 =>
         /\ pc \in {"suggestions", "complete", "done"}
         /\ \E m \in AssistantRows :
              /\ m.id = aiMessage
              /\ m.content = AssistantContent(Concat(TokenData))

C12_Witness ==
  /\ req.kind = "stream" /\ pc = "done"
  /\ FrameTypes = <<"userMessage", "token", "upgrade_required", "token",
                    "suggestions", "complete">>

\* C13 as stated: every admitted streaming turn eventually ends its
\* response in COMPLETE or ERROR, that is with one terminal frame written,
\* and once the terminal frame is written the handler takes no further
\* step: the only step left is the release of the request.
C13_Terminates ==
  /\ (req.kind = "stream" /\ res.sse)
       ~> (pc = "done" /\ res.ended /\ Len(TerminalFrames) = 1)
  /\ [][(req.kind = "stream" /\ Len(TerminalFrames) = 1) => req' = NoRequest]_vars

\* the tool-call fragments delivered by the primary stream, in delivery
\* order, and those of one index
FragmentsReceived ==
  Concat([i \in 1..Len(Received("primary")) |->
            Received("primary")[i].delta.tool_calls])

FragmentsAt(index) == SelectSeq(FragmentsReceived, LAMBDA f : f.index = index)

\* the argument text of a sequence of fragments, in order
Arguments(fs) == Concat([i \in 1..Len(fs) |-> fs[i].arguments])

Indices == {f.index : f \in Fragments}

\* C14: whatever the delivery order of the fragments, every index that was
\* observed has a slot of its own, whose argument buffer is the
\* concatenation of the argument fragments of that index in delivery order
\* and of nothing else.
C14_SlotsSeparate ==
  req.kind = "stream" =>
    LET received == FragmentsReceived
    IN \A index \in Indices :
         LET fs == SelectSeq(received, LAMBDA f : f.index = index)
         IN fs # <<>> =>
              /\ Slot(toolCalls, index) # Undefined
              /\ Slot(toolCalls, index).arguments = Arguments(fs)

\* index 1 was delivered before index 0, and index 0 received a second
\* fragment after that
C14_Witness ==
  /\ req.kind = "stream"
  /\ Len(FragmentsReceived) = 3
  /\ FragmentsReceived[1].index = 1
  /\ FragmentsReceived[2].index = 0
  /\ FragmentsReceived[3].index = 0
  /\ Slot(toolCalls, 0).arguments = <<"{", "}">>
  /\ Slot(toolCalls, 1).arguments = <<"{", "}">>

\* the accumulator has a hole: a position below its length that no
\* fragment named
HasGap == \E i \in 1..Len(toolCalls) : toolCalls[i] = Undefined

\* C15 as stated: when fragments arrive with a gap in their indices the
\* skipped index does not make the turn fail: the turn does not end with
\* the error raised by reading the slot of the skipped index.
C15_GapsTolerated ==
  (req.kind = "stream" /\ HasGap) =>
    ~(Emitted("error") /\ error = TypeErrorUndefined)

\* C16 as stated: when the first fragment of an index carries no id and no
\* function name and a later fragment of that index carries them, the slot
\* has the id and the function name of that later fragment.
C16_LateIdentity ==
  req.kind = "stream" =>
    \A index \in Indices :
      LET fs == FragmentsAt(index)
          later == {i \in 2..Len(fs) : fs[i].id # "" /\ fs[i].name # ""}
      IN (fs # <<>> /\ fs[1].id = "" /\ fs[1].name = "" /\ later # {}) =>
           \E i \in later :
             /\ Slot(toolCalls, index).id = fs[i].id
             /\ Slot(toolCalls, index).name = fs[i].name

\* the slots the tool loop has gone past
Visited == {Slot(toolCalls, i) : i \in 0..(toolIdx - 1)} \ {Undefined}

HasResult(toolCall, content) ==
  \E k \in 1..Len(toolResults) :
    toolResults[k] = ToolResult(toolCall, content)

\* C18 as stated: every finalized tool call that names a function which is
\* not in the registry has, once the tool loop has gone past it, a failed
\* tool result carrying its id.
C18_UnknownRecorded ==
  req.kind = "stream" =>
    \A toolCall \in Visited :
      (toolCall.name # "" /\ toolCall.name \notin Registry) =>
        HasResult(toolCall, "failed")

\* the plan of the caller of the request in flight
Plan == IF isAuthenticated THEN planOf[req.caller] ELSE "free"

Subscriber == Plan \in {"plus", "pro"}

\* the positions the tool loop has gone past that hold a generate_image call
ImageCalls ==
  {i \in 0..(toolIdx - 1) : Slot(toolCalls, i).name = "generate_image"}

ResultsWith(content) ==
  {k \in 1..Len(toolResults) : toolResults[k].content = content}

\* C17: the image provider is called only for a caller whose plan is plus
\* or pro; in a streaming turn of a caller on the free plan (anonymous
\* callers included) every generate_image call the tool loop has gone past
\* wrote an upgrade_required frame and pushed a denial carrying its id, and
\* nothing else was pushed; POST /api/generate-image answers such a caller
\* without calling the provider.
C17_FreePlanDenied ==
  /\ upstream.images > 0 => Subscriber
  /\ (req.kind = "stream" /\ ~Subscriber) =>
       /\ Len(Frames("upgrade_required")) = Cardinality(ImageCalls)
       /\ Len(toolResults) = Cardinality(ImageCalls)
       /\ \A i \in ImageCalls : HasResult(Slot(toolCalls, i), "denied")
       /\ ~Emitted("image")
  /\ (req.kind = "image" /\ ~Subscriber /\ pc = "done") =>
       res.status \in {403, 500}

C17_Witness ==
  /\ req.kind = "stream" /\ req.caller = "u2"
  /\ pc = "done" /\ Emitted("complete")
  /\ Emitted("upgrade_required")
  /\ Cardinality(ResultsWith("denied")) = 1
  /\ upstream.images = 0

\* a tool call of the turn failed or was denied
Degraded == ResultsWith("failed") \cup ResultsWith("denied") # {}

Thrown == {k \in 1..Len(upstream.outcomes) : upstream.outcomes[k] = "throw"}

\* C19: a tool call that is denied, whose arguments do not parse or whose
\* provider call throws leaves a tool result and the turn goes on: every
\* such call the tool loop has gone past has its result, a turn with such
\* a result that went past the tool loop issued the secondary stream with
\* the results, it ends in ERROR only through a failure of persistence or
\* of the upstream stream, and otherwise it persists its assistant message
\* and emits complete.
C19_ToolFailureDegrades ==
  req.kind = "stream" =>
    /\ \A i \in ImageCalls :
         /\ ~Subscriber => HasResult(Slot(toolCalls, i), "denied")
         /\ (Subscriber /\ ~IsJSON(Slot(toolCalls, i).arguments)) =>
              HasResult(Slot(toolCalls, i), "failed")
    /\ Cardinality(ResultsWith("failed")) =
         Cardinality(Thrown)
           + Cardinality({i \in ImageCalls :
                            Subscriber /\ ~IsJSON(Slot(toolCalls, i).arguments)})
    /\ Degraded =>
         /\ pc \in {"stream_secondary", "persist_assistant", "suggestions",
                    "complete"} =>
              \E c \in 1..Len(upstream.calls) :
                LET call == upstream.calls[c]
                IN /\ call.kind = "secondary"
                   /\ SliceLast(call.messages, Len(toolResults)) = toolResults
         /\ Emitted("error") =>
              error \in StorageErrors \cup StreamErrors \cup UpstreamErrors
         /\ (pc = "done" /\ ~Emitted("error")) =>
              /\ Called("secondary")
              /\ aiMessage # 0
              /\ Emitted("complete")

C19_Witness ==
  /\ req.kind = "stream" /\ pc = "done"
  /\ Thrown # {}
  /\ ResultsWith("failed") # {}
  /\ Called("secondary")
  /\ Emitted("complete")

\* the streaming calls made to the upstream model by the turn in flight
StreamCalls ==
  LET calls == SelectSeq(upstream.calls,
                         LAMBDA c : c.kind \in {"primary", "secondary"})
  IN [i \in 1..Len(calls) |-> calls[i].kind]

\* C20: a streaming turn makes at most two streaming calls, the primary
\* one and then the secondary one; the secondary call was made only with a
\* tool result recorded, and was made whenever the turn went past the tool
\* loop with a tool result; a turn without tool calls has no tool result
\* and goes to persisting; the pending text is the text of both streams in
\* delivery order.
C20_AtMostTwoCalls ==
  req.kind = "stream" =>
    /\ StreamCalls \in {<<>>, <<"primary">>, <<"primary", "secondary">>}
    /\ Called("secondary") => toolResults # <<>>
    /\ (toolResults # <<>> /\ pc \in {"persist_assistant", "suggestions", "complete"})
         => Called("secondary")
    /\ toolCalls = <<>> => toolResults = <<>>
    /\ aiResponse = Concat(TextDeltas)

C20_Witness ==
  /\ req.kind = "stream" /\ pc = "done" /\ Emitted("complete")
  /\ StreamCalls = <<"primary", "secondary">>
  /\ TextOf("primary") = {<<"a">>}
  /\ TextOf("secondary") = {<<"b">>}
  /\ aiResponse = <<"a", "b">>

\* a turn without tool calls: one streaming call
C20_WitnessDirect ==
  /\ req.kind = "stream" /\ pc = "done" /\ Emitted("complete")
  /\ toolCalls = <<>>
  /\ StreamCalls = <<"primary">>

\* the references the image provider returned during the request in flight,
\* in call order
Returned ==
  LET ok == SelectSeq([k \in 1..Len(upstream.outcomes) |-> k],
                      LAMBDA k : upstream.outcomes[k] = "url")
  IN [i \in 1..Len(ok) |-> GeneratedImage(ok[i])]

\* C21: the assistant message persisted by a streaming turn carries an
\* image reference exactly when an image call of the turn succeeded, that
\* is when an image frame was written; the image frames carry the
\* references the provider returned, in order; the message carries the
\* reference of the last image frame, and no reference when every call was
\* denied, failed or absent.
C21_ImageIffGenerated ==
  req.kind = "stream" =>
    LET images == Frames("image")
    IN /\ Len(images) = Len(Returned)
       /\ \A i \in 1..Len(images) : images[i].data = Returned[i]
       /\ \A m \in AssistantRows :
            /\ m.imageUrl # NoImage <=> Len(images) > 0
            /\ Len(images) > 0 => m.imageUrl = images[Len(images)].data
            /\ Len(Returned) > 0 => m.imageUrl = Returned[Len(Returned)]

\* two image calls of one turn succeeded and the assistant message is saved
C21_Witness ==
  /\ req.kind = "stream" /\ pc = "done" /\ Emitted("complete")
  /\ Len(Frames("image")) = 2
  /\ Frames("image")[1].data # Frames("image")[2].data
  /\ \E m \in AssistantRows : m.imageUrl = Frames("image")[2].data

\* every image call of the turn was denied or failed and the assistant
\* message is saved without a reference
C21_WitnessNone ==
  /\ req.kind = "stream" /\ pc = "done" /\ Emitted("complete")
  /\ Degraded /\ ~Emitted("image")
  /\ \E m \in AssistantRows : m.imageUrl = NoImage

\* C22: a failure of the suggestion step (the request throws, the reply is
\* not JSON, is not a list, or holds an element that is not a string) is
\* swallowed: once the assistant message of a streaming turn is persisted
\* no error frame is written, the suggestion request leads to COMPLETE,
\* and the turn ends with a complete frame that carries that message.
C22_SuggestionsSwallowed ==
  (req.kind = "stream" /\ aiMessage # 0) =>
    /\ ~Emitted("error")
    /\ error = NoError
    /\ pc \in {"suggestions", "complete", "done"}
    /\ Called("suggestions") => pc \in {"complete", "done"}
    /\ pc = "done" =>
         /\ res.ended
         /\ res.frames[Len(res.frames)] = [type |-> "complete", data |-> aiMessage]
         /\ \E m \in AssistantRows : m.id = aiMessage

\* the suggestion step failed (no suggestions frame) and the turn completed
C22_Witness ==
  /\ req.kind = "stream" /\ pc = "done"
  /\ Called("suggestions") /\ ~Emitted("suggestions")
  /\ Emitted("complete") /\ ~Emitted("error")
  /\ \E m \in AssistantRows : m.id = aiMessage

\* C23: a turn writes at most one suggestions frame, only with at least one
\* suggestion left after filtering: its payload holds one to three strings,
\* each of them non-empty after trimming.
C23_SuggestionsPayload ==
  LET frames == Frames("suggestions")
  IN /\ Len(frames) <= 1
     /\ \A i \in 1..Len(frames) :
          /\ Len(frames[i].data) \in 1..3
          /\ \A k \in 1..Len(frames[i].data) :
               /\ frames[i].data[k] # NotAString
               /\ Trim(frames[i].data[k]) # Empty

\* a reply of four elements, one of them blank, gave two suggestions
C23_Witness ==
  /\ req.kind = "stream" /\ pc = "done" /\ Emitted("complete")
  /\ Len(Frames("suggestions")) = 1
  /\ Frames("suggestions")[1].data = << <<"q", "1">>, <<"q", "2">> >>

\* the failure caught is about an image: its message names the image
ImageRelated(e) ==
  Includes(e.message, "Invalid image") \/ Includes(e.message, "image data")

\* C24 as stated: the error frame of a failed streaming turn carries the
\* dedicated image message exactly when the failure caught is an
\* image-related upstream error, and otherwise the message of the failure
\* itself (the default text stands in when the failure has no message).
C24_ImageMessageIffImageError ==
  (req.kind = "stream" /\ Emitted("error")) =>
    LET data == Frames("error")[1].data
    IN /\ data = ImageErrorMessage <=> ImageRelated(error)
       /\ data # ImageErrorMessage =>
            data = IF Truthy(error.message) THEN error.message
                   ELSE DefaultErrorMessage

\* C25 as stated: poll mode runs the state machine of streaming mode, tool
\* round trip included: the request a poll turn sends to the upstream model
\* advertises the tool registry, as the primary request of a streaming
\* turn does, so that the same upstream behaviour can follow.
C25_PollSameMachine ==
  \A i \in 1..Len(upstream.calls) :
    upstream.calls[i].kind \in {"primary", "poll"} =>
      upstream.calls[i].tools = Registry

\* C26 as stated: the instruction set of the primary request of a
\* streaming turn ends with the new user turn, whichever of the insert and
\* the history read ran first.
C26_EndsWithUserTurn ==
  \A i \in 1..Len(upstream.calls) :
    upstream.calls[i].kind = "primary" =>
      LET sent == upstream.calls[i].messages
      IN /\ Len(sent) > 1
         /\ sent[Len(sent)] = [role |-> "user",
                               content |-> validatedData.content,
                               image_url |-> validatedData.imageUrl]

\* the conversation of the turn in flight has a custom persona that cannot
\* be resolved for the caller: no persona of that id belongs to the caller
\* (an anonymous caller owns none)
Unresolved ==
  LET conversation == getConversation(req.conversationId)
  IN /\ req.kind \in {"stream", "poll"}
     /\ conversation # NoConversation
     /\ Head(conversation.persona) = "custom-"
     /\ ~\E p \in customPersonas :
           p.id = Tail(conversation.persona) /\ p.userId = req.caller

\* C27 as stated: a turn whose custom persona cannot be resolved is not
\* aborted: it is never answered 401, its instruction set starts with the
\* general directive, and once its user message is saved it ends only after
\* a request to the upstream model or a failure of a collaborator.
C27_UnresolvedFallsBack ==
  (Unresolved /\ userMessage # 0) =>
    /\ res.status # 401
    /\ openaiMessages # <<>> => openaiMessages[1].content = <<"general">>
    /\ pc = "done" => (upstream.calls # <<>> \/ error # NoError)

\* ------------------------------------------------------------------- debate
\* the display name and the id of the persona of the k-th utterance: the
\* first persona speaks the odd ones
NameOfUtterance(k) == IF k % 2 = 1 THEN persona1Name ELSE persona2Name
IdOfUtterance(k) == IF k % 2 = 1 THEN req.persona1 ELSE req.persona2

\* the number of speaker frames among the first i frames
UtteranceOf(i) ==
  Cardinality({j \in 1..i : res.frames[j].type = "speaker"})

\* the text of the k-th utterance as the client received it: its tokens
UtteranceText(k) ==
  LET at == SelectSeq([i \in 1..Len(res.frames) |-> i],
                      LAMBDA i : res.frames[i].type = "token" /\ UtteranceOf(i) = k)
  IN Concat([n \in 1..Len(at) |-> res.frames[at[n]].data])

\* C28: a debate whose two personas are the same is rejected with 400
\* before any request to the upstream model and persists nothing; a debate
\* that emitted complete persisted exactly six assistant messages, the
\* k-th of them the text of the k-th utterance prefixed with the display
\* name of its persona, and its complete frame, the last frame, carries
\* rounds = 3; no debate persists more than six messages.
C28_DebateSixMessages ==
  req.kind = "debate" =>
    /\ req.persona1 = req.persona2 =>
         /\ upstream.calls = <<>>
         /\ messages = <<>>
         /\ ~res.sse
         /\ pc = "done" => res.status = 400
    /\ Len(messages) <= 6
    /\ \A k \in 1..Len(messages) :
         /\ messages[k].role = "assistant"
         /\ messages[k].conversationId = req.conversationId
         /\ messages[k].content
              = <<"**", NameOfUtterance(k), "**: ">> \o UtteranceText(k)
    /\ Emitted("complete") =>
         /\ Len(messages) = 6
         /\ Len(Frames("complete")) = 1
         /\ res.frames[Len(res.frames)]
              = [type |-> "complete", data |-> [success |-> TRUE, rounds |-> 3]]
         /\ res.ended
    /\ (pc = "done" /\ res.sse /\ ~Emitted("error")) => Emitted("complete")

\* a debate between Fizz and the Patient Teacher ran to completion
C28_Witness ==
  /\ req.kind = "debate" /\ pc = "done" /\ Emitted("complete")
  /\ Len(messages) = 6
  /\ messages[1].content = <<"**", "Fizz", "**: ", "1">>
  /\ messages[2].content = <<"**", "Patient Teacher", "**: ">>
  /\ messages[6].content = <<"**", "Patient Teacher", "**: ", "2", "3">>

\* a debate of one persona against itself was rejected
C28_WitnessRejected ==
  /\ req.kind = "debate" /\ pc = "done"
  /\ req.persona1 = req.persona2
  /\ res.status = 400

\* C29: the speaker frames of a debate alternate between the two personas,
\* starting with the first; every token follows the speaker frame of its
\* utterance and names its persona; when the k-th speaker frame is written
\* the k-1 earlier utterances are persisted and in the transcript; and the
\* request of the k-th utterance carries, between the system prompt and
\* the prompt, exactly the k-1 earlier utterances in order.
C29_DebateOrder ==
  (req.kind = "debate" /\ res.sse) =>
    LET speakers == Frames("speaker")
        text == [k \in 1..Len(speakers) |-> UtteranceText(k)]
    IN /\ Len(speakers) <= 6
       /\ \A k \in 1..Len(speakers) : speakers[k].data = NameOfUtterance(k)
       /\ \A i \in 1..Len(res.frames) :
            res.frames[i].type = "token" =>
              /\ UtteranceOf(i) >= 1
              /\ res.frames[i].speaker = IdOfUtterance(UtteranceOf(i))
       /\ Len(messages) >= Len(speakers) - 1
       /\ Len(conversationHistory) = Len(messages)
       /\ \A k \in 1..Len(conversationHistory) :
            conversationHistory[k] = [role |-> "assistant", content |-> text[k]]
       /\ Len(upstream.calls) = Len(speakers)
       /\ \A k \in 1..Len(upstream.calls) :
            LET sent == upstream.calls[k].messages
            IN /\ Len(sent) = k + 1
               /\ sent[1].role = "system"
               /\ sent[k + 1].role = "user"
               /\ \A j \in 1..(k - 1) :
                    sent[j + 1] = [role |-> "assistant", content |-> text[j]]

\* a completed debate whose first three utterances have texts of their own
C29_Witness ==
  /\ req.kind = "debate" /\ pc = "done" /\ Emitted("complete")
  /\ Len(upstream.calls) = 6
  /\ upstream.calls[6].messages[2].content = <<"1">>
  /\ upstream.calls[6].messages[3].content = <<"2">>
  /\ upstream.calls[6].messages[4].content = <<"3">>

\* C30: a debate advertises no tool and calls none: every request it sends
\* to the upstream model is an utterance request without a tools
\* parameter, the image provider is never called, no tool frame is
\* written, and the Rate Counter of the anonymous session keeps its value.
C30_DebateNoTools ==
  req.kind = "debate" =>
    /\ \A k \in 1..Len(upstream.calls) :
         /\ upstream.calls[k].kind = "debate"
         /\ upstream.calls[k].tools = {}
    /\ upstream.images = 0 /\ upstream.outcomes = <<>>
    /\ ~Emitted("image") /\ ~Emitted("upgrade_required")
    /\ toolCalls = <<>> /\ toolResults = <<>>
    /\ unauthMessageCount = MESSAGE_LIMIT - 1
    /\ rate = NoRate

\* a debate asked by an anonymous caller ran to completion
C30_Witness ==
  /\ req.kind = "debate" /\ req.caller = Anonymous
  /\ pc = "done" /\ Emitted("complete")
  /\ Len(upstream.calls) = 6
  /\ unauthMessageCount = MESSAGE_LIMIT - 1

\* ----------------------------------------------------------------- curation
\* C31: a successful edit of a user message removes the rows of its
\* conversation that come after it in creation order and nothing else: the
\* rows kept are the edited row, every earlier row and every row of another
\* conversation, in their original order and unchanged except for the new
\* content of the edited row.
C31_EditTruncates ==
  [][(pc = "message_op" /\ req.kind = "edit" /\ res'.status = 200) =>
       LET at == CHOOSE i \in 1..Len(messages) : messages[i].id = req.id
           conversationId == messages[at].conversationId
           kept == SelectSeq([i \in 1..Len(messages) |-> i],
                             LAMBDA i : ~(i > at /\ messages[i].conversationId
                                                     = conversationId))
       IN /\ Len(messages') = Len(kept)
          /\ \A k \in 1..Len(kept) :
               messages'[k] =
                 IF kept[k] = at
                   THEN [messages[at] EXCEPT !.content = Trim(req.content),
                                             !.edited = TRUE]
                   ELSE messages[kept[k]]]_vars

\* an edit removed a later row of the conversation and kept a later row of
\* the other conversation
C31_Witness ==
  /\ req.kind = "edit" /\ pc = "done" /\ res.status = 200
  /\ nreq = 1
  /\ Len(messages) < nextId
  /\ \E i, j \in 1..Len(messages) :
       /\ i < j
       /\ messages[i].id = req.id /\ messages[i].edited
       /\ messages[j].conversationId # messages[i].conversationId

\* ------------------------------------------------------------- cancellation
\* C32 as stated: once the client has closed the connection of a streaming
\* turn, the handler writes no further token frame and no complete or
\* error frame.
C32_SilentAfterClose ==
  (req.kind = "stream" /\ res.closedAt >= 0) =>
    \A i \in (res.closedAt + 1)..Len(res.frames) :
      res.frames[i].type \notin {"token", "complete", "error"}

\* C33 as stated: in the request of the secondary stream every tool call of
\* the assistant record has exactly one tool result with its id, and every
\* tool result carries the id of a tool call of the record.
C33_ResultsMatchCalls ==
  (req.kind = "stream" /\ Called("secondary")) =>
    /\ \A i \in 1..Len(toolCalls) :
         Cardinality({k \in 1..Len(toolResults) :
                        toolResults[k].tool_call_id = toolCalls[i].id}) = 1
    /\ \A k \in 1..Len(toolResults) :
         \E i \in 1..Len(toolCalls) :
           toolCalls[i].id = toolResults[k].tool_call_id

\* ------------------------------------------------------------ Rate Counter
\* C34 as stated: every admitted anonymous turn request adds exactly one to
\* the Rate Counter, whatever becomes of it afterwards (not found, failure
\* or success): once the responses of the requests of a session have ended,
\* the counter equals the number of admitted requests.
C34_CountsAttempts ==
  (\A i \in Slots : ~InFlight(i)) => unauthMessageCount = rate.admitted

\* C35: the streaming and the poll endpoint share one Rate Counter and
\* nothing else changes it. A step changes the counter only in the limit
\* check of a streaming or poll request of an anonymous caller that passed
\* validation and read a value below 15, and then by exactly one; an
\* anonymous request of either endpoint that reads 15 or more is answered
\* 429. Requests of authenticated callers, requests failing validation,
\* image requests, debates and message operations leave it unchanged.
C35_OnlyTurnsCount ==
  [][/\ unauthMessageCount' # unauthMessageCount =>
          /\ pc = "authorizing"
          /\ req.kind \in {"stream", "poll"}
          /\ req.caller = Anonymous
          /\ req.content # Missing
          /\ unauthMessageCount < MESSAGE_LIMIT
          /\ unauthMessageCount' = unauthMessageCount + 1
     /\ (pc = "authorizing" /\ req.caller = Anonymous
           /\ unauthMessageCount >= MESSAGE_LIMIT) => res'.status = 429]_vars

\* the second anonymous request of a session, sent to the poll endpoint, is
\* refused because the first one took the last unit
C35_Witness ==
  /\ nreq = 2
  /\ req.kind = "poll"
  /\ req.caller = Anonymous
  /\ res.status = 429
  /\ unauthMessageCount = MESSAGE_LIMIT

\* ---------------------------------------------------------------- ownership
\* the ids of the rows of conversation c in a table
RowsOf(table, c) == {table[i].id : i \in {j \in 1..Len(table) : table[j].conversationId = c}}

\* C36 as stated: the messages of a conversation that has an owner are added
\* or removed only on behalf of that owner: every step that changes the set
\* of rows of an owned conversation belongs to a request of its owner.
C36_OwnerOnly ==
  [][\A c \in DOMAIN conversations :
       (conversations[c].userId # Null
          /\ RowsOf(messages', c) # RowsOf(messages, c))
         => req.caller = conversations[c].userId]_vars

\* ----------------------------------------------------------- debate failure
\* C37: when the upstream model or the persistence service fails during the
\* k-th utterance of a debate, the k-1 utterances completed before it, and
\* no others, are persisted; the response carries one error frame, its last
\* frame, and no complete frame; and the handler has ended: no request for
\* a later utterance was made and no later speaker frame written.
C37_DebateFailure ==
  (req.kind = "debate" /\ res.sse /\ Emitted("error")) =>
    LET k == Len(Frames("speaker"))
    IN /\ k \in 1..(2 * Rounds)
       /\ Len(messages) = k - 1
       /\ \A j \in 1..Len(messages) :
            messages[j].content
              = <<"**", NameOfUtterance(j), "**: ">> \o UtteranceText(j)
       /\ Len(Frames("error")) = 1
       /\ res.frames[Len(res.frames)].type = "error"
       /\ ~Emitted("complete")
       /\ Len(upstream.calls) = k
       /\ pc = "done"
       /\ res.ended

\* the persistence service failed when the fourth utterance was saved
C37_Witness ==
  /\ req.kind = "debate" /\ res.sse /\ Emitted("error")
  /\ error \in StorageErrors
  /\ Len(Frames("speaker")) = 4
  /\ Len(messages) = 3
  /\ UtteranceText(4) # Empty

\* the stream of the sixth utterance was cut
C37_WitnessLast ==
  /\ req.kind = "debate" /\ res.sse /\ Emitted("error")
  /\ error \in StreamErrors
  /\ Len(Frames("speaker")) = 6
  /\ Len(messages) = 5

\* ---------------------------------------------------------------- reactions
\* the reactions a caller can send
ReactionPairs == [emoji : CurateEmojis, userId : Callers]

\* the reactions of a list other than r, in their order
Others(list, r) == SelectSeq(list, LAMBDA x : x # r)

NoDuplicatePair(list) ==
  \A i, j \in 1..Len(list) : list[i] = list[j] => i = j

\* C38 as stated: applying the same reaction twice to a message restores
\* its original reaction list.
C38_TwiceRestoresList ==
  \A i \in 1..Len(messages) : \A r \in ReactionPairs :
    Toggle(Toggle(messages[i].reactions, r), r) = messages[i].reactions

\* C38, amended: addReaction toggles the pair (emoji, userId). One call
\* removes the pair when the list holds it and appends it otherwise, and
\* leaves the reactions of other users or emojis in place and in order.
\* Two calls with the same reaction restore the pairs of the list; the list
\* itself is restored when the pair was absent or was its last entry,
\* otherwise the pair has moved to the end. The list of a message, changed
\* by sequential calls only, never holds a pair twice.
C38_Toggle ==
  \A i \in 1..Len(messages) :
    LET current == messages[i].reactions
    IN /\ NoDuplicatePair(current)
       /\ \A r \in ReactionPairs :
            LET once == Toggle(current, r)
                twice == Toggle(once, r)
                held == \E n \in 1..Len(current) : current[n] = r
            IN /\ held <=> ~(\E n \in 1..Len(once) : once[n] = r)
               /\ Others(once, r) = Others(current, r)
               /\ NoDuplicatePair(once)
               /\ Len(once) = IF held THEN Len(current) - 1 ELSE Len(current) + 1
               /\ twice = IF held THEN Append(Others(current, r), r) ELSE current
               /\ (~held \/ current[Len(current)] = r) => twice = current

\* a message holds two reactions, put there by two requests
C38_Witness ==
  /\ req.kind = "reaction" /\ res.status = 200 /\ nreq = 2
  /\ \E i \in 1..Len(messages) :
       /\ messages[i].id = req.id
       /\ Len(messages[i].reactions) = 2
       /\ messages[i].reactions[2] = [emoji |-> req.emoji, userId |-> req.caller]
       /\ messages[i].reactions[1] # messages[i].reactions[2]

\* a reaction was taken back by the request that repeated it
C38_WitnessRemoved ==
  /\ req.kind = "reaction" /\ res.status = 200 /\ nreq = 2
  /\ \E i \in 1..Len(messages) :
       /\ messages[i].id = req.id
       /\ messages[i].reactions = <<>>

====
